---- MODULE Spec2Model ----
(***************************************************************************)
(* cesm_dev_statboard: the diagnostics-resolution pipeline.                *)
(*                                                                         *)
(*   SpecFind  FilesystemCollector.find_diagnostics over bounded           *)
(*             filesystems (src/collectors/filesystem_collector.py)        *)
(*   SpecWeb   WebDiagnosticsCollector.find_diagnostics_from_urls over     *)
(*             bounded link graphs (src/collectors/web_collector.py)       *)
(*   Spec      the three run modes: full collection (collect_data.main),   *)
(*             incremental update and diagnostics rescan (update_data)     *)
(*                                                                         *)
(* Paths are sequences of path components; os.path.join(a, b) appends.     *)
(* Python's None is the empty path for paths, NoTime for timestamps and    *)
(* the record None for objects.                                            *)
(***************************************************************************)
EXTENDS Integers, Sequences, FiniteSets, TLC

VARIABLES
    fsys,      \* SpecFind: the filesystem find_diagnostics runs against
    fargs,     \* SpecFind: the arguments of the call (None before the call)
    fret,      \* SpecFind: what find_diagnostics returned
    wserver,   \* SpecWeb: the pages of the web server and their links
    wcands,    \* SpecWeb: candidate_urls of find_diagnostics_from_urls
    wi,        \* SpecWeb: the position of its loop over candidate_urls
    wtried,    \* SpecWeb: per candidate tried, the table pages and tables it gave
    wlog,      \* SpecWeb: the HTTP fetches made so far, in order
    wret,      \* SpecWeb: the value returned or the exception raised
    wpc,       \* SpecWeb: "idle", "loop", "returned" or "raised"
    mode,      \* Spec: "full", "incremental" or "diagnostics"
    issues,    \* Spec: the issues GitHub returns to the run, in order
    cases,     \* Spec: the rows get_all_cases gave the loop that is running
    db,        \* Spec: the tables issues, cases and diagnostics
    update_log,\* Spec: the update_log row of the run (None before log_update)
    stats,     \* Spec: the run's counters and its error list
    idx,       \* Spec: the position of the loop that is running
    pc,        \* Spec: "idle", "start", "issues", "cases", "backfill", "done",
               \*       or "aborted" when an exception left the script
    trace,     \* Spec: per item processed, what the loop body did (history)
    pfn,       \* parser specifications: the function called ("" before the call)
    pargs,     \* parser specifications: the input the function is called with
    pret,      \* parser specifications: what the function returned
    gpages,    \* SpecGitHub: the pages of issues the GitHub server holds
    grate,     \* SpecGitHub: rate_limit of the collector
    gpc,       \* SpecGitHub: "idle", "request" (inside _make_request),
               \*             "responded" (it returned) or "returned"
    gpage,     \* SpecGitHub: page of fetch_all_issues
    gattempt,  \* SpecGitHub: attempt of the running _make_request
    glog,      \* SpecGitHub: the requests and sleeps of the last _make_request
    gresp,     \* SpecGitHub: what the last _make_request returned
    gcalls,    \* SpecGitHub: per call of _make_request, the page and the result
    gall,      \* SpecGitHub: all_issues of fetch_all_issues
    gret       \* SpecGitHub: what fetch_all_issues returned

varsFind == <<fsys, fargs, fret>>
varsWeb == <<wserver, wcands, wi, wtried, wlog, wret, wpc>>
varsRun == <<mode, issues, cases, db, update_log, stats, idx, pc, trace>>
varsParse == <<pfn, pargs, pret>>
varsGit == <<gpages, grate, gpc, gpage, gattempt, glog, gresp, gcalls, gall, gret>>
vars == <<fsys, fargs, fret, wserver, wcands, wi, wtried, wlog, wret, wpc,
          mode, issues, cases, db, update_log, stats, idx, pc, trace,
          pfn, pargs, pret,
          gpages, grate, gpc, gpage, gattempt, glog, gresp, gcalls, gall, gret>>

None == [none |-> TRUE]
NoPath == <<>>
NoTime == 0

(***************************************************************************)
(* Bounds                                                                  *)
(***************************************************************************)
\* at most this many of the candidate directories exist in one filesystem
MaxDirs == 3
\* at most this many links on the pages of one web server, all pages together
MaxLinks == 3
\* at most this many candidate URLs in one call of find_diagnostics_from_urls
MaxCands == 2
\* at most this many issues fetched by a run, and cases in the database
MaxIssues == 2

(***************************************************************************)
(* Configuration (config/settings.py) and the names the model draws from   *)
(***************************************************************************)
CaseName == "b.e30.B1850.ne30.001"

AMWG_CLIMO_BASE == <<"glade", "campaign", "cgd", "amp", "amwg", "climo">>
SCRATCH_BASE == <<"glade", "scratch">>
CESM_RUNS_BASE == <<"glade", "campaign", "cesm", "cesmdata", "cseg", "runs", "cesm2_0">>
\* base_paths['adf_output_bases'] is a list; two bases so that its order shows
ADF_OUTPUT_BASES ==
    << <<"glade", "derecho", "scratch", "hannay", "ADF">>,
       <<"glade", "derecho", "scratch", "other", "ADF">> >>

join(base, name) == Append(base, name)

IsPrefix(p, q) == Len(p) <= Len(q) /\ SubSeq(q, 1, Len(p)) = p

\* a in b for path components: the names of the model that contain the case name
\* as a substring are the case name itself and its two decorated forms
NameContains(name, sub) ==
    \/ name = sub
    \/ name = sub \o ".old"
    \/ name = "pre." \o sub

\* the substrings _is_diagnostics_directory looks for, per component of the model
ComponentHasIndicator(c) ==
    c \in {"diagnostics", "diag", "postprocess", "amwg", "climo",
           "diagnostics_out", "amwg_tables", "diagnostics-output"}

(***************************************************************************)
(* The filesystem: the directories that exist and the files in them.       *)
(***************************************************************************)
\* os.path.exists
exists(fs, p) == p \in fs.dirs \/ \E f \in fs.files : join(f.dir, f.name) = p

\* os.path.isdir
isdir(fs, p) == p \in fs.dirs

\* Path(d).glob(pattern) for the two shapes used: "*name*" and a literal name;
\* the result is in directory-listing order, which fs.listing gives
globContains(fs, d, sub) ==
    SelectSeq(fs.listing,
              LAMBDA p : /\ Len(p) = Len(d) + 1
                         /\ IsPrefix(d, p)
                         /\ exists(fs, p)
                         /\ NameContains(p[Len(p)], sub))

globLiteral(fs, d, name) ==
    IF exists(fs, join(d, name)) THEN << join(d, name) >> ELSE << >>

(***************************************************************************)
(* FilesystemCollector                                                     *)
(***************************************************************************)
\* scan_amwg_tables listing the directory itself instead of walking below it
scan_amwg_tables_flat(fs, diagnostic_path) ==
    { f \in fs.files : f.dir = diagnostic_path /\ f.ext = "csv" }

\* scan_amwg_tables: os.walk below the path, keeping the files ending in .csv
scan_amwg_tables(fs, diagnostic_path) ==
    { f \in fs.files : IsPrefix(diagnostic_path, f.dir) /\ f.ext = "csv" }

SetMax(S) == CHOOSE m \in S : \A n \in S : n <= m
SetMin(S) == CHOOSE m \in S : \A n \in S : m <= n

\* _scan_diagnostics_directory
scan_diagnostics_directory(fs, diag_path) ==
    LET csv_files == scan_amwg_tables(fs, diag_path)
    IN  [ path |-> diag_path,
          exists |-> TRUE,
          diagnostic_type |-> "AMWG",
          csv_files |-> csv_files,
          last_modified |-> IF csv_files # {}
                            THEN SetMax({ f.mtime : f \in csv_files })
                            ELSE NoTime,
          file_count |-> Cardinality(csv_files) ]

\* _is_diagnostics_directory
is_diagnostics_directory(path) ==
    \E k \in 1..Len(path) : ComponentHasIndicator(path[k])

diag_subdirs == <<"diagnostics", "diag", "postprocess">>

\* strategy 1's loop: the first candidate that is a directory, or NoPath
RECURSIVE FirstDir(_, _)
FirstDir(fs, cands) ==
    IF cands = << >> THEN NoPath
    ELSE IF isdir(fs, Head(cands)) THEN Head(cands)
    ELSE FirstDir(fs, Tail(cands))

\* strategy 3's loop: the first candidate that exists, or NoPath
RECURSIVE FirstExisting(_, _)
FirstExisting(fs, cands) ==
    IF cands = << >> THEN NoPath
    ELSE IF exists(fs, Head(cands)) THEN Head(cands)
    ELSE FirstExisting(fs, Tail(cands))

\* strategy 4's loop: the first path that exists and looks like diagnostics
RECURSIVE FirstHint(_, _)
FirstHint(fs, paths) ==
    IF paths = << >> THEN NoPath
    ELSE IF exists(fs, Head(paths)) /\ is_diagnostics_directory(Head(paths))
         THEN Head(paths)
    ELSE FirstHint(fs, Tail(paths))

AdfCandidates(case_name) ==
    [ k \in 1..Len(ADF_OUTPUT_BASES) |-> join(ADF_OUTPUT_BASES[k], case_name) ]

SubdirCandidates(case_dir) ==
    [ k \in 1..Len(diag_subdirs) |-> join(case_dir, diag_subdirs[k]) ]

\* search_patterns of strategy 5, each with the matches of its glob
Strategy5Matches(fs, case_name) ==
    LET m1 == globContains(fs, AMWG_CLIMO_BASE, case_name)
        m2 == globLiteral(fs,
                  SCRATCH_BASE \o <<"*", "diagnostics-output", "atm", "climo">>,
                  case_name)
    IN  IF m1 # << >> THEN m1 ELSE m2

\* find_diagnostics_path with the climatology base looked at before the ADF bases
find_diagnostics_path_climo_first(fs, case_name, case_dir, additional_paths) ==
    LET s1 == FirstDir(fs, AdfCandidates(case_name))
        s2 == join(AMWG_CLIMO_BASE, case_name)
        s3 == IF case_dir # NoPath /\ exists(fs, case_dir)
              THEN FirstExisting(fs, SubdirCandidates(case_dir))
              ELSE NoPath
        s4 == FirstHint(fs, additional_paths)
        s5 == Strategy5Matches(fs, case_name)
    IN  IF exists(fs, s2) THEN s2
        ELSE IF s1 # NoPath THEN s1
        ELSE IF s3 # NoPath THEN s3
        ELSE IF s4 # NoPath THEN s4
        ELSE IF s5 # << >> THEN s5[1]
        ELSE NoPath

\* find_diagnostics: the path of the directory it scans, or NoPath
find_diagnostics_path(fs, case_name, case_dir, additional_paths) ==
    LET s1 == FirstDir(fs, AdfCandidates(case_name))
        s2 == join(AMWG_CLIMO_BASE, case_name)
        s3 == IF case_dir # NoPath /\ exists(fs, case_dir)
              THEN FirstExisting(fs, SubdirCandidates(case_dir))
              ELSE NoPath
        s4 == FirstHint(fs, additional_paths)
        s5 == Strategy5Matches(fs, case_name)
    IN  IF s1 # NoPath THEN s1
        ELSE IF exists(fs, s2) THEN s2
        ELSE IF s3 # NoPath THEN s3
        ELSE IF s4 # NoPath THEN s4
        ELSE IF s5 # << >> THEN s5[1]
        ELSE NoPath

\* find_diagnostics
find_diagnostics(fs, case_name, case_dir, additional_paths) ==
    LET p == find_diagnostics_path(fs, case_name, case_dir, additional_paths)
    IN  IF p = NoPath THEN None ELSE scan_diagnostics_directory(fs, p)

(***************************************************************************)
(* WebDiagnosticsCollector.  A URL is [host, segs, slash]: the host, the    *)
(* path segments and whether the text ends in "/".  The web is             *)
(* [links, down]: the hrefs of each directory page in page order, and the  *)
(* pages that answer with an HTTP error.                                   *)
(***************************************************************************)
ALLOWED_HOSTS == {"webext.cgd.ucar.edu"}
MAX_NAV_DEPTH == 4

OtherHost == "evil.example.org"

Url(host, segs, slash) == [host |-> host, segs |-> segs, slash |-> slash]

\* Python exceptions are values
Raised(name, msg) == [raised |-> name, msg |-> msg]
IsRaised(v) == "raised" \in DOMAIN v

\* 'amwg_table_' in s, '.' in s, and s.endswith('.html'), for the segment names
\* of the model
SegHasAmwgTable(s) == s \in {"amwg_table_case.html", "amwg_table_ctl.html"}
SegHasDot(s) == s \in {"amwg_table_case.html", "amwg_table_ctl.html", "index.html",
                       CaseName}
SegEndsHtml(s) == s \in {"amwg_table_case.html", "amwg_table_ctl.html", "index.html"}

\* any(tok in last_seg.lower() for tok in ('html_table', 'atm', case_name.lower()[:12]))
SegHasToken(s, case_name) == s \in {"html_table", "atm", case_name}

LastSeg(u) == IF u.segs = << >> THEN u.host ELSE u.segs[Len(u.segs)]

\* 'amwg_table_' in url and url.endswith('.html')
IsTableUrl(u) ==
    /\ \E k \in 1..Len(u.segs) : SegHasAmwgTable(u.segs[k])
    /\ ~u.slash
    /\ u.segs # << >>
    /\ SegEndsHtml(LastSeg(u))

\* resolved.endswith('/') or '.' not in resolved.split('/')[-1]
IsDirectoryUrl(u) == u.slash \/ ~SegHasDot(LastSeg(u))

\* _is_allowed_url
is_allowed_url(u) == u.host \in ALLOWED_HOSTS

named_periods ==
    <<"ANN", "DJF", "MAM", "JJA", "SON", "Jan", "Feb", "Mar", "Apr", "May", "Jun",
      "Jul", "Aug", "Sep", "Oct", "Nov", "Dec">>

\* _infer_period_from_url: the first named period that is a path segment, else ANN
infer_period_from_url(u) ==
    LET hits == { k \in 1..Len(named_periods) :
                    \E j \in 1..Len(u.segs) : u.segs[j] = named_periods[k] }
    IN  IF hits # {}
        THEN named_periods[CHOOSE k \in hits : \A j \in hits : k <= j]
        ELSE "ANN"

\* _fetch_page_links: the hrefs of the page, [] on an HTTP error
fetch_page_links(web, u) ==
    IF u \in DOMAIN web.links /\ u \notin web.down THEN web.links[u] ELSE << >>

\* urljoin(base_url, href) for absolute and root-relative hrefs
urljoin(base, href) ==
    IF href.form = "absolute" THEN href.url
    ELSE Url(base.host, href.url.segs, href.url.slash)

\* _resolve_link accepting every host
resolve_link_any_host(base, href) ==
    IF href.form \in {"fragment", "query"} THEN None
    ELSE urljoin(base, href)

\* _resolve_link: None for fragment and query hrefs and for other hosts
resolve_link(base, href) ==
    IF href.form \in {"fragment", "query"} THEN None
    ELSE LET resolved == urljoin(base, href)
         IN  IF resolved.host \notin ALLOWED_HOSTS THEN None ELSE resolved

Fetch(u, what, depth) == [url |-> u, what |-> what, depth |-> depth]

\* the loop over the links of a page: found and dirs_to_follow
RECURSIVE ClassifyLinks(_, _, _, _, _)
ClassifyLinks(base, links, case_name, found, dirs) ==
    IF links = << >> THEN [found |-> found, dirs |-> dirs]
    ELSE LET resolved == resolve_link(base, Head(links))
         IN  IF resolved = None
             THEN ClassifyLinks(base, Tail(links), case_name, found, dirs)
             ELSE IF IsTableUrl(resolved)
             THEN ClassifyLinks(base, Tail(links), case_name,
                      Append(found, <<resolved, infer_period_from_url(resolved)>>),
                      dirs)
             ELSE IF IsDirectoryUrl(resolved)
                     /\ SegHasToken(LastSeg(resolved), case_name)
             THEN ClassifyLinks(base, Tail(links), case_name, found,
                                Append(dirs, resolved))
             ELSE ClassifyLinks(base, Tail(links), case_name, found, dirs)

\* _navigate_for_tables: the (url, period) pairs found and the fetches made
RECURSIVE navigate_for_tables(_, _, _, _)
RECURSIVE FollowDirs(_, _, _, _, _, _)
\* _navigate_for_tables letting one more level through
navigate_for_tables_deeper(web, u, case_name, depth) ==
    IF depth > MAX_NAV_DEPTH + 1 THEN [found |-> << >>, log |-> << >>]
    ELSE LET links == fetch_page_links(web, u)
             log == << Fetch(u, "page", depth) >>
         IN  IF links = << >> THEN [found |-> << >>, log |-> log]
             ELSE LET c == ClassifyLinks(u, links, case_name, << >>, << >>)
                  IN  FollowDirs(web, c.dirs, case_name, depth, c.found, log)

navigate_for_tables(web, u, case_name, depth) ==
    IF depth > MAX_NAV_DEPTH THEN [found |-> << >>, log |-> << >>]
    ELSE LET links == fetch_page_links(web, u)
             log == << Fetch(u, "page", depth) >>
         IN  IF links = << >> THEN [found |-> << >>, log |-> log]
             ELSE LET c == ClassifyLinks(u, links, case_name, << >>, << >>)
                  IN  FollowDirs(web, c.dirs, case_name, depth, c.found, log)

\* the loop over dirs_to_follow without its "if found: break"
FollowDirs_exhaustive(web, dirs, case_name, depth, found, log) ==
    IF dirs = << >> THEN [found |-> found, log |-> log]
    ELSE LET r == navigate_for_tables(web, Head(dirs), case_name, depth + 1)
         IN  FollowDirs(web, Tail(dirs), case_name, depth,
                        found \o r.found, log \o r.log)

\* the loop over dirs_to_follow, which stops once tables were found
FollowDirs(web, dirs, case_name, depth, found, log) ==
    IF dirs = << >> \/ found # << >> THEN [found |-> found, log |-> log]
    ELSE LET r == navigate_for_tables(web, Head(dirs), case_name, depth + 1)
         IN  FollowDirs(web, Tail(dirs), case_name, depth,
                        found \o r.found, log \o r.log)

\* find_html_table_urls
find_html_table_urls(web, base_url, case_name) ==
    IF ~is_allowed_url(base_url) THEN [found |-> << >>, log |-> << >>]
    ELSE IF IsTableUrl(base_url)
    THEN [found |-> << <<base_url, infer_period_from_url(base_url)>> >>,
          log |-> << >>]
    ELSE navigate_for_tables(web, base_url, case_name, 0)

\* the tables pd.read_html gives for a page that have 3 columns or more and a row;
\* none when the request fails
UsableTables(web, u) ==
    IF u \in DOMAIN web.tables /\ u \notin web.down THEN web.tables[u] ELSE 0

\* fetch_html_tables: the table dicts of the page and the fetch made
fetch_html_tables(web, html_url) ==
    IF ~is_allowed_url(html_url) THEN [tables |-> << >>, log |-> << >>]
    ELSE [ tables |-> [ k \in 1..UsableTables(web, html_url) |->
                          [url |-> html_url,
                           period |-> infer_period_from_url(html_url),
                           df |-> k] ],
           log |-> << Fetch(html_url, "table", 0) >> ]

\* the fields of the dataclass DiagnosticsInfo
DiagnosticsInfoFields ==
    {"path", "exists", "diagnostic_type", "csv_files", "last_modified", "file_count"}

\* DiagnosticsInfo(**kwargs): the generated __init__ rejects an unknown keyword
DiagnosticsInfo(kwargs) ==
    IF DOMAIN kwargs \subseteq DiagnosticsInfoFields THEN kwargs
    ELSE Raised("TypeError",
                "DiagnosticsInfo.__init__() got an unexpected keyword argument 'source'")

WebTime == 9

\* build_diagnostics_info
build_diagnostics_info(base_url, case_name, html_urls) ==
    IF html_urls = << >> THEN None
    ELSE DiagnosticsInfo([ path |-> base_url,
                           exists |-> TRUE,
                           diagnostic_type |-> "AMWG",
                           csv_files |-> {},
                           last_modified |-> WebTime,
                           file_count |-> Len(html_urls),
                           source |-> "web" ])

\* the inner loop of find_diagnostics_from_urls over html_urls
RECURSIVE FetchAll(_, _, _, _)
FetchAll(web, html_urls, all_tables, log) ==
    IF html_urls = << >> THEN [tables |-> all_tables, log |-> log]
    ELSE LET r == fetch_html_tables(web, Head(html_urls)[1])
             tds == [ k \in 1..Len(r.tables) |->
                        [r.tables[k] EXCEPT !.period = Head(html_urls)[2]] ]
         IN  FetchAll(web, Tail(html_urls), all_tables \o tds, log \o r.log)

\* one iteration of the loop of find_diagnostics_from_urls over candidate_urls:
\* "next" when the loop goes on, else the value returned or the exception raised
TryCandidate(web, u, case_name) ==
    LET h == find_html_table_urls(web, u, case_name)
        t == FetchAll(web, h.found, << >>, << >>)
        diag_info == build_diagnostics_info(u, case_name, h.found)
    IN  IF h.found = << >>
        THEN [next |-> TRUE, value |-> None, html_urls |-> h.found,
              tables |-> << >>, log |-> h.log]
        ELSE IF t.tables = << >>
        THEN [next |-> TRUE, value |-> None, html_urls |-> h.found,
              tables |-> << >>, log |-> h.log \o t.log]
        ELSE [next |-> FALSE,
              value |-> IF IsRaised(diag_info) THEN diag_info
                        ELSE [diagnostics_info |-> diag_info,
                              tables_data |-> t.tables,
                              source_url |-> u],
              html_urls |-> h.found,
              tables |-> t.tables,
              log |-> h.log \o t.log]

\* find_diagnostics_from_urls: the value returned (None, a WebDiagnosticsResult)
\* or the exception raised, and the fetches made
RECURSIVE find_diagnostics_from_urls(_, _, _)
find_diagnostics_from_urls(web, candidate_urls, case_name) ==
    IF candidate_urls = << >> THEN [value |-> None, log |-> << >>]
    ELSE LET r == TryCandidate(web, Head(candidate_urls), case_name)
         IN  IF r.next
             THEN LET rest == find_diagnostics_from_urls(web, Tail(candidate_urls),
                                                         case_name)
                  IN  [value |-> rest.value, log |-> r.log \o rest.log]
             ELSE [value |-> r.value, log |-> r.log]

(***************************************************************************)
(* The filesystems and arguments the model draws from                      *)
(***************************************************************************)
CaseDir == join(CESM_RUNS_BASE, CaseName)

Hint1 == <<"glade", "work", "diagnostics_out">>
Hint2 == <<"glade", "work", "amwg_tables">>
Hint3 == <<"glade", "work", "results">>

Glob1 == join(AMWG_CLIMO_BASE, CaseName \o ".old")
Glob2 == join(AMWG_CLIMO_BASE, "pre." \o CaseName)
Glob3 == join(SCRATCH_BASE \o <<"*", "diagnostics-output", "atm", "climo">>, CaseName)

\* the directories find_diagnostics can look at for CaseName
CandidateDirs ==
    { AdfCandidates(CaseName)[k] : k \in 1..Len(ADF_OUTPUT_BASES) }
    \cup { join(AMWG_CLIMO_BASE, CaseName), CaseDir }
    \cup { SubdirCandidates(CaseDir)[k] : k \in 1..Len(diag_subdirs) }
    \cup { Hint1, Hint2, Hint3, Glob1, Glob2, Glob3 }

\* what a directory holds: nothing, no table file, or table files at two levels
ContentKinds == {"empty", "notables", "tables"}

FilesOf(d, kind) ==
    IF kind = "empty" THEN {}
    ELSE IF kind = "notables"
    THEN { [dir |-> d, name |-> "README.txt", ext |-> "txt", mtime |-> 5] }
    ELSE { [dir |-> d, name |-> "amwg_table.csv", ext |-> "csv", mtime |-> 2],
           [dir |-> join(d, "yrs_2_21"), name |-> "amwg_table.csv", ext |-> "csv",
            mtime |-> 3],
           [dir |-> d, name |-> "notes.txt", ext |-> "txt", mtime |-> 7] }

Ancestors(p) == { SubSeq(p, 1, k) : k \in 1..Len(p) }

\* the filesystem in which the directories of X exist with the given contents
MakeFs(X, content, listing) ==
    LET files == UNION { FilesOf(d, content[d]) : d \in X }
    IN  [ dirs |-> UNION { Ancestors(d) : d \in X }
                   \cup UNION { Ancestors(f.dir) : f \in files },
          files |-> files,
          listing |-> listing ]

Listings == { <<Glob1, Glob2>>, <<Glob2, Glob1>> }

HintLists ==
    { << >> } \cup { <<a>> : a \in {Hint1, Hint2, Hint3} }
    \cup { <<a, b>> : a \in {Hint1, Hint2, Hint3}, b \in {Hint1, Hint2, Hint3} }

(***************************************************************************)
(* The web servers and candidate lists the model draws from                *)
(***************************************************************************)
Host == "webext.cgd.ucar.edu"

Dir0 == Url(Host, <<"adf", CaseName>>, TRUE)
Dir1 == Url(Host, <<"adf", CaseName, "atm">>, TRUE)
Table1 == Url(Host, <<"adf", CaseName, "atm", "html_table", "amwg_table_case.html">>,
              FALSE)
Table2 == Url(Host, <<"adf", CaseName, "atm", "html_table", "amwg_table_ctl.html">>,
              FALSE)
Plots == Url(Host, <<"adf", CaseName, "plots">>, TRUE)
OffTable == Url(OtherHost, <<"adf", "atm", "html_table", "amwg_table_case.html">>,
                FALSE)
OffDir == Url(OtherHost, <<"adf", "atm">>, TRUE)

\* the href a page uses for a URL: root-relative on its own host, else absolute
HrefTo(u) == [form |-> IF u.host = Host THEN "rootrel" ELSE "absolute", url |-> u]

\* the sort links of a directory listing ("?C=M;O=A")
QueryHref == [form |-> "query", url |-> Dir0]

\* the hrefs the case's directory page and its atm/ page can carry
Hrefs0 == { HrefTo(u) : u \in {Dir0, Dir1, Table1, Plots, OffDir} } \cup {QueryHref}
Hrefs1 == { HrefTo(u) : u \in {Dir0, Dir1, Table1, Table2, OffTable} }

SeqsUpTo(S, n) == UNION { [1..k -> S] : k \in 0..n }

\* Table1 holds three usable tables; Table2 none (unparseable or trivial tables)
WebTables == [u \in {Table1, Table2} |-> IF u = Table1 THEN 3 ELSE 0]

MakeWeb(l0, l1, down) ==
    [ links |-> [u \in {Dir0, Dir1} |-> IF u = Dir0 THEN l0 ELSE l1],
      down |-> down,
      tables |-> WebTables ]

NoWeb == MakeWeb(<< >>, << >>, {})

CandidateUrls == {Dir0, Table1, OffDir}

IsInjective(q) == \A a, b \in 1..Len(q) : q[a] = q[b] => a = b

WebIdle ==
    /\ wserver = NoWeb
    /\ wcands = << >>
    /\ wi = 0
    /\ wtried = << >>
    /\ wlog = << >>
    /\ wret = None
    /\ wpc = "idle"

FindIdle ==
    /\ fsys = MakeFs({}, << >>, <<Glob1, Glob2>>)
    /\ fargs = None
    /\ fret = None

ParseIdle ==
    /\ pfn = ""
    /\ pargs = None
    /\ pret = None

(***************************************************************************)
(* GitHubCollector (src/collectors/github_collector.py).  The server is    *)
(* the sequence of its pages of issues: a page is the kinds of its items   *)
(* ("issue" or "pr") and whether its answer carries a rel="next" link; a   *)
(* page past the last one is the empty list.  Each request is answered     *)
(* with one of Outcomes.                                                   *)
(***************************************************************************)
\* retry_count of _make_request, the default of Retry-After, and remaining < 5
retry_count == 3
RetryAfterDefault == 60
RateLimitFloor == 5

\* self.rate_limit after __init__
InitialRateLimit == [limit |-> 60, remaining |-> 60, reset |-> None]

\* the answers to one session.get: 200, 200 with rate-limit headers that
\* leave 4 requests until a reset 10 s ahead, 429, another HTTP error
\* status, and an exception in the connection
Outcomes == {"ok", "ok_low", "rate_limited", "http_error", "connection_error"}
LowHeaders == [limit |-> 60, remaining |-> 4, reset |-> [in |-> 10]]
headers_of(outcome) == IF outcome = "ok_low" THEN LowHeaders ELSE None

Request(attempt, outcome) == [kind |-> "get", attempt |-> attempt, outcome |-> outcome]
Sleep(why, seconds) == [kind |-> "sleep", why |-> why, seconds |-> seconds]

\* _update_rate_limit
update_rate_limit(rate_limit, headers) ==
    IF headers = None THEN rate_limit ELSE headers

\* _wait_for_rate_limit: the rate_limit it leaves and the sleep it makes
wait_for_rate_limit(rate_limit) ==
    IF /\ rate_limit.remaining < RateLimitFloor
       /\ rate_limit.reset # None
       /\ rate_limit.reset.in > 0
    THEN [ rate_limit |-> [rate_limit EXCEPT !.remaining = rate_limit.limit],
           log |-> << Sleep("rate_limit", rate_limit.reset.in + 1) >> ]
    ELSE [rate_limit |-> rate_limit, log |-> << >>]

\* the handler of RequestException that waits after the last attempt too
on_request_exception_always_retrying(attempt) ==
    [done |-> FALSE, log |-> << Sleep("backoff", 2 ^ attempt) >>]

\* "except requests.exceptions.RequestException": wait 2 ** attempt and go
\* on, or return None after the last attempt
on_request_exception(attempt) ==
    IF attempt < retry_count - 1
    THEN [done |-> FALSE, log |-> << Sleep("backoff", 2 ^ attempt) >>]
    ELSE [done |-> TRUE, log |-> << >>]

\* one iteration of "for attempt in range(retry_count)": done when the call
\* returns, with the response returned (None after the last failed attempt)
make_request_attempt(rate_limit, attempt, outcome, answer) ==
    LET w == wait_for_rate_limit(rate_limit)
        sent == w.log \o << Request(attempt, outcome) >>
        updated == update_rate_limit(w.rate_limit, headers_of(outcome))
        e == on_request_exception(attempt)
    IN  CASE outcome \in {"ok", "ok_low"} ->
               [rate_limit |-> updated, log |-> sent, done |-> TRUE, response |-> answer]
          [] outcome = "rate_limited" ->
               [rate_limit |-> updated,
                log |-> Append(sent, Sleep("retry_after", RetryAfterDefault)),
                done |-> FALSE, response |-> None]
          [] outcome = "http_error" ->
               [rate_limit |-> updated, log |-> sent \o e.log,
                done |-> e.done, response |-> None]
          [] outcome = "connection_error" ->
               [rate_limit |-> w.rate_limit, log |-> sent \o e.log,
                done |-> e.done, response |-> None]

\* the items of a page: the key pull_request is present in a pull request
ItemsOf(kinds, page) ==
    [i \in 1..Len(kinds) |-> [number |-> 10 * page + i, pull_request |-> kinds[i] = "pr"]]

\* the response of the server for a page
page_response(pages, page) ==
    IF page \in 1..Len(pages)
    THEN [json |-> ItemsOf(pages[page].kinds, page), next |-> pages[page].next]
    ELSE [json |-> << >>, next |-> FALSE]

\* the body of "while True" after _make_request, keeping the pull requests
fetch_page_unfiltered(all_issues, response) ==
    IF response = None THEN [all_issues |-> all_issues, more |-> FALSE]
    ELSE IF response.json = << >> THEN [all_issues |-> all_issues, more |-> FALSE]
    ELSE [ all_issues |-> all_issues \o response.json, more |-> response.next ]

\* the body of "while True" in fetch_all_issues after _make_request: all_issues
\* and whether the loop goes on with the next page
fetch_page(all_issues, response) ==
    IF response = None THEN [all_issues |-> all_issues, more |-> FALSE]
    ELSE IF response.json = << >> THEN [all_issues |-> all_issues, more |-> FALSE]
    ELSE [ all_issues |-> all_issues
                            \o SelectSeq(response.json, LAMBDA x : ~x.pull_request),
           more |-> response.next ]

\* the pages of the model
MaxPages == 2
PageKinds == { << >>, <<"issue">>, <<"pr">>, <<"pr", "issue">> }
PageChoices == [kinds : PageKinds, next : BOOLEAN]

GitIdle ==
    /\ gpages = << >>
    /\ grate = InitialRateLimit
    /\ gpc = "idle"
    /\ gpage = 0
    /\ gattempt = 0
    /\ glog = << >>
    /\ gresp = None
    /\ gcalls = << >>
    /\ gall = << >>
    /\ gret = None

(***************************************************************************)
(* Database (src/storage/database.py).  issues is keyed by issue number,   *)
(* cases by case name; the row ids of the code are these keys.  A body of  *)
(* an issue is given by the fields IssueParser extracts from it.           *)
(***************************************************************************)
NoName == ""

\* dict.get(key, default)
Get(data, key, default) == IF key \in DOMAIN data THEN data[key] ELSE default

Put(f, k, v) == [x \in DOMAIN f \cup {k} |-> IF x = k THEN v ELSE f[x]]

\* the tables after initialize_schema
\* statistics holds the rows in the order of their ids; update_logs counts the
\* rows of update_log; lastrowid is sqlite3_last_insert_rowid of the connection
EmptyDb ==
    [ issues |-> << >>, cases |-> << >>, diagnostics |-> << >>, statistics |-> << >>,
      update_logs |-> 0, lastrowid |-> 0 ]

\* upsert_issue: INSERT ... ON CONFLICT(issue_number) DO UPDATE
upsert_issue(d, issue_data) ==
    [d EXCEPT !.issues = Put(@, issue_data.issue_number,
                             [ body |-> Get(issue_data, "body", None),
                               case_name |-> Get(issue_data, "case_name", NoName) ]),
              !.lastrowid = IF issue_data.issue_number \in DOMAIN d.issues THEN @
                            ELSE Cardinality(DOMAIN d.issues) + 1]

\* upsert_case: INSERT ... ON CONFLICT(case_name) DO UPDATE of every column the
\* statement lists, each taken from case_data.get(column); atm_in_namelist is kept
upsert_case(d, case_data) ==
    LET name == case_data.case_name
    IN  [d EXCEPT !.cases = Put(@, name,
           [ issue_id |-> Get(case_data, "issue_id", 0),
             case_directory |-> Get(case_data, "case_directory", NoPath),
             diagnostics_directory |-> Get(case_data, "diagnostics_directory", NoPath),
             has_diagnostics |-> Get(case_data, "has_diagnostics", FALSE),
             diagnostics_url |-> Get(case_data, "diagnostics_url", None),
             atm_in_namelist |-> IF name \in DOMAIN d.cases
                                 THEN d.cases[name].atm_in_namelist
                                 ELSE FALSE ]),
                  !.lastrowid = IF name \in DOMAIN d.cases THEN @
                                ELSE Cardinality(DOMAIN d.cases) + 1]

\* upsert_diagnostic: INSERT ... ON CONFLICT(case_id, path) DO UPDATE; the id of
\* a row is its position.  The value returned is cursor.lastrowid, lastrowid
\* of the database after the statement.
upsert_diagnostic(d, diagnostic_data) ==
    LET rows == d.diagnostics
        hit == { k \in 1..Len(rows) : /\ rows[k].case_id = diagnostic_data.case_id
                                      /\ rows[k].path = diagnostic_data.path }
    IN  [d EXCEPT !.diagnostics =
           IF hit = {} THEN Append(rows, diagnostic_data)
           ELSE [k \in 1..Len(rows) |-> IF k \in hit THEN diagnostic_data
                                        ELSE rows[k]],
                  !.lastrowid = IF hit = {} THEN Len(rows) + 1 ELSE @]

\* an INSERT OR REPLACE of the table in place of the INSERT
bulk_insert_statistics_replacing(d, stats_list) ==
    IF stats_list = << >> THEN d
    ELSE [d EXCEPT !.statistics = stats_list, !.lastrowid = Len(stats_list)]

\* bulk_insert_statistics: INSERT of every record of stats_list
bulk_insert_statistics(d, stats_list) ==
    IF stats_list = << >> THEN d
    ELSE [d EXCEPT !.statistics = @ \o stats_list,
                   !.lastrowid = Len(d.statistics) + Len(stats_list)]

\* update_case_namelist: namelist is TRUE for a parsed namelist, FALSE for None
update_case_namelist(d, case_id, namelist) ==
    IF case_id \in DOMAIN d.cases
    THEN [d EXCEPT !.cases[case_id].atm_in_namelist = namelist]
    ELSE d

\* the case names of the model, in the order get_all_cases lists their rows
CaseNameSeq ==
    << CaseName, "b.e30.B1850.ne30.002", "b.e30.B1850.ne30.003",
       "b.e30.B1850.ne30.004" >>

\* get_all_cases(filters): the rows, each with its id and case_name
get_all_cases(d, filters) ==
    LET names == SelectSeq(CaseNameSeq,
                   LAMBDA c : /\ c \in DOMAIN d.cases
                              /\ ("has_diagnostics" \in DOMAIN filters =>
                                    d.cases[c].has_diagnostics = filters.has_diagnostics))
    IN  [ k \in 1..Len(names) |->
            [ id |-> names[k],
              case_name |-> names[k],
              issue_id |-> d.cases[names[k]].issue_id,
              case_directory |-> d.cases[names[k]].case_directory,
              diagnostics_url |-> d.cases[names[k]].diagnostics_url,
              atm_in_namelist |-> d.cases[names[k]].atm_in_namelist ] ]

\* log_update: the INSERT into update_log
log_update_insert(d) ==
    [d EXCEPT !.update_logs = @ + 1, !.lastrowid = d.update_logs + 1]

\* log_update: the new update_log row
log_update(update_type) ==
    [ update_type |-> update_type, status |-> "running", issues_fetched |-> 0,
      cases_updated |-> 0, diagnostics_found |-> 0, errors |-> None ]

\* truth value of an Optional[str]: None and '' are false
Truthy(text) == text # None /\ text.str # ""

\* complete_update_log
complete_update_log(row, issues_fetched, cases_updated, diagnostics_found, errors) ==
    [ row EXCEPT !.status = IF ~Truthy(errors) THEN "completed"
                            ELSE "completed_with_errors",
                 !.issues_fetched = issues_fetched,
                 !.cases_updated = cases_updated,
                 !.diagnostics_found = diagnostics_found,
                 !.errors = errors ]

\* '\n'.join(errors)
RECURSIVE JoinLines(_)
JoinLines(errors) ==
    IF errors = << >> THEN ""
    ELSE IF Len(errors) = 1 THEN errors[1]
    ELSE errors[1] \o "\n" \o JoinLines(Tail(errors))

\* '\n'.join(stats['errors']) if stats['errors'] else None
ErrorsArg(errors) == IF errors # << >> THEN [str |-> JoinLines(errors)] ELSE None

(***************************************************************************)
(* ADFParser (src/parsers/adf_parser.py).  A DataFrame is [columns, rows]; *)
(* a row maps each column to a cell; a cell is NaN, a number or a text.    *)
(* A Python dict is a sequence of <<key, value>> pairs in insertion order. *)
(***************************************************************************)
NaN == [kind |-> "nan"]
Num(v) == [kind |-> "num", v |-> v]
Text(s) == [kind |-> "text", s |-> s]

\* pd.notna
notna(cell) == cell.kind # "nan"

\* float(value) raises ValueError for a text that is not a number
float_raises(cell) == cell.kind # "num"
float(cell) == cell.v

\* str.strip for the variable names of the model
strip(s) == IF s = " TS" THEN "TS" ELSE s

\* str(value) of a cell
str(cell) == IF cell.kind = "text" THEN cell.s ELSE ToString(cell.v)

\* key in dict, dict[key], dict[key] = value
DictHas(dict, key) == \E i \in 1..Len(dict) : dict[i][1] = key
DictGet(dict, key) == dict[CHOOSE i \in 1..Len(dict) : dict[i][1] = key][2]
DictPut(dict, key, value) ==
    IF DictHas(dict, key)
    THEN [i \in 1..Len(dict) |-> IF dict[i][1] = key THEN <<key, value>> ELSE dict[i]]
    ELSE Append(dict, <<key, value>>)
DictKeys(dict) == { dict[i][1] : i \in 1..Len(dict) }

\* the file names of the model and 'comp' in filename.lower()
SingleCsvName == "amwg_table_case.csv"
CompCsvName == "amwg_table_comp.csv"
\* the single-case table of the case f.e30.FCOMP.001
CompCaseCsvName == "amwg_table_f.e30.FCOMP.001.csv"
\* 'comp' in filename.lower()
NameHasComp(filename) == filename \in {CompCsvName, CompCaseCsvName}

\* _is_comparison_table
is_comparison_table(filename, df) ==
    \/ NameHasComp(filename)
    \/ {"test", "control", "diff"} \subseteq { df.columns[i] : i \in 1..Len(df.columns) }

\* the (col, metric) pairs of a comparison table and of a single-case table
ComparisonMetrics == << <<"test", "global_mean">>, <<"diff", "bias">> >>
col_metric_map_swapped ==
    << <<"mean", "global_mean">>, <<"standard dev.", "std_error">>,
       <<"standard error", "std">>, <<"sample size", "sample_size">> >>
col_metric_map ==
    << <<"mean", "global_mean">>, <<"standard dev.", "std">>,
       <<"standard error", "std_error">>, <<"sample size", "sample_size">> >>

\* "for col, metric in ...": the metrics of one row
RECURSIVE RowMetrics(_, _, _)
RowMetrics(row, pairs, var_stats) ==
    IF pairs = << >> THEN var_stats
    ELSE LET col == Head(pairs)[1]
             metric == Head(pairs)[2]
         IN  RowMetrics(row, Tail(pairs),
                IF /\ col \in DOMAIN row
                   /\ notna(row[col])
                   /\ ~float_raises(row[col])
                THEN DictPut(var_stats, metric, float(row[col]))
                ELSE var_stats)

\* "if 'unit' in row.index": the unit of the row under the key _unit
RowUnit(row, var_stats) ==
    IF "unit" \in DOMAIN row /\ notna(row["unit"])
    THEN DictPut(var_stats, "_unit", str(row["unit"]))
    ELSE var_stats

\* "for idx, row in df.iterrows()"
RECURSIVE StatsOfRows(_, _, _, _)
StatsOfRows(rows, var_col, is_comp, csv_stats) ==
    IF rows = << >> THEN csv_stats
    ELSE LET row == Head(rows)
             var_stats == RowUnit(row, RowMetrics(row,
                              IF is_comp THEN ComparisonMetrics ELSE col_metric_map,
                              << >>))
         IN  StatsOfRows(Tail(rows), var_col, is_comp,
                IF ~notna(row[var_col]) THEN csv_stats
                ELSE IF var_stats # << >>
                THEN DictPut(csv_stats, strip(str(row[var_col])), var_stats)
                ELSE csv_stats)

\* extract_statistics_from_csv
extract_statistics_from_csv(filename, df) ==
    IF df = None THEN << >>
    ELSE IF df.rows = << >> \/ df.columns = << >> THEN << >>
    ELSE StatsOfRows(df.rows, df.columns[1], is_comparison_table(filename, df), << >>)

\* temporal_periods and "period in filename" for the file names of the model
temporal_periods ==
    <<"ANN", "DJF", "MAM", "JJA", "SON", "Jan", "Feb", "Mar", "Apr", "May",
      "Jun", "Jul", "Aug", "Sep", "Oct", "Nov", "Dec">>
SeasonCsvName == "amwg_table_DJF.csv"
PeriodInName(period, filename) == filename = SeasonCsvName /\ period = "DJF"

\* the path components the pattern yrs_(\d+)_(\d+) matches
YearsDirs == {"yrs_2_21", "yrs_22_41"}

\* infer_temporal_period
infer_temporal_period(csv_path) ==
    LET filename == csv_path[Len(csv_path)]
        named == { i \in 1..Len(temporal_periods) : PeriodInName(temporal_periods[i], filename) }
        yrs == { i \in 1..Len(csv_path) : csv_path[i] \in YearsDirs }
    IN  IF named # {} THEN temporal_periods[SetMin(named)]
        ELSE IF yrs # {} THEN csv_path[SetMin(yrs)]
        ELSE "ANN"

\* k.startswith('_') for the keys of var_stats
StartsWithUnderscore(k) == k = "_unit"

\* the merge of var_stats that keeps a metric already present
RECURSIVE MergeMetrics_keeping(_, _)
MergeMetrics_keeping(merged, var_stats) ==
    IF var_stats = << >> THEN merged
    ELSE MergeMetrics_keeping(IF \/ StartsWithUnderscore(Head(var_stats)[1])
                                 \/ DictHas(merged, Head(var_stats)[1])
                              THEN merged
                              ELSE DictPut(merged, Head(var_stats)[1], Head(var_stats)[2]),
                              Tail(var_stats))

\* "for k, v in var_stats.items()": the keys not starting with '_' are merged
RECURSIVE MergeMetrics(_, _)
MergeMetrics(merged, var_stats) ==
    IF var_stats = << >> THEN merged
    ELSE MergeMetrics(IF StartsWithUnderscore(Head(var_stats)[1]) THEN merged
                      ELSE DictPut(merged, Head(var_stats)[1], Head(var_stats)[2]),
                      Tail(var_stats))

\* "for var_name, var_stats in csv_stats.items()"
RECURSIVE MergeVariables(_, _)
MergeVariables(variables, csv_stats) ==
    IF csv_stats = << >> THEN variables
    ELSE LET var_name == Head(csv_stats)[1]
             old == IF DictHas(variables, var_name) THEN DictGet(variables, var_name) ELSE << >>
         IN  MergeVariables(DictPut(variables, var_name, MergeMetrics(old, Head(csv_stats)[2])),
                            Tail(csv_stats))

\* "for csv_file in csv_files"; a file pandas cannot read has df = None
RECURSIVE MergeFiles(_, _)
MergeFiles(all_stats, csv_files) ==
    IF csv_files = << >> THEN all_stats
    ELSE LET f == Head(csv_files)
             period == infer_temporal_period(f.path)
             csv_stats == extract_statistics_from_csv(f.path[Len(f.path)], f.df)
         IN  MergeFiles(IF f.df = None \/ csv_stats = << >> THEN all_stats
                        ELSE DictPut(all_stats, period,
                                MergeVariables(IF DictHas(all_stats, period)
                                               THEN DictGet(all_stats, period) ELSE << >>,
                                               csv_stats)),
                        Tail(csv_files))

\* parse_all_tables_in_directory: csv_files is rglob('*.csv') in its order
parse_all_tables_in_directory(csv_files) == MergeFiles(<< >>, csv_files)

\* the three loops of extract_statistics_list
RECURSIVE MetricRecords(_, _, _, _)
MetricRecords(metrics, period, var_name, diagnostic_id) ==
    IF metrics = << >> THEN << >>
    ELSE << [ diagnostic_id |-> diagnostic_id, variable_name |-> var_name,
              temporal_period |-> period, metric_name |-> Head(metrics)[1],
              value |-> Head(metrics)[2], units |-> None ] >>
         \o MetricRecords(Tail(metrics), period, var_name, diagnostic_id)

RECURSIVE VariableRecords(_, _, _)
VariableRecords(variables, period, diagnostic_id) ==
    IF variables = << >> THEN << >>
    ELSE MetricRecords(Head(variables)[2], period, Head(variables)[1], diagnostic_id)
         \o VariableRecords(Tail(variables), period, diagnostic_id)

RECURSIVE PeriodRecords(_, _)
PeriodRecords(all_stats, diagnostic_id) ==
    IF all_stats = << >> THEN << >>
    ELSE VariableRecords(Head(all_stats)[2], Head(all_stats)[1], diagnostic_id)
         \o PeriodRecords(Tail(all_stats), diagnostic_id)

\* extract_statistics_list
extract_statistics_list(csv_files, diagnostic_id) ==
    PeriodRecords(parse_all_tables_in_directory(csv_files), diagnostic_id)

(***************************************************************************)
(* The tables and diagnostics directories SpecStats runs against.          *)
(***************************************************************************)
MaxRows == 2
MaxFiles == 2

SingleColumns == <<"variable", "unit", "mean", "sample size", "standard dev.", "standard error">>
BareColumns == <<"variable", "mean", "standard dev.">>
ComparisonColumns == <<"variable", "unit", "test", "control", "diff">>
MixedColumns == <<"variable", "unit", "test", "control", "diff", "mean">>
ValueColumns == {"mean", "sample size", "standard dev.", "standard error", "test", "control", "diff"}

\* file name and header of a table: the two ADF formats, a single-case table
\* without unit column, a comparison header under another file name, and a
\* single-case header under the comparison file name, the single-case table
\* of a case whose name holds "COMP", and a header with the comparison columns
\* and one more
Layouts ==
    { <<SingleCsvName, SingleColumns>>, <<SingleCsvName, BareColumns>>,
      <<CompCsvName, ComparisonColumns>>, <<SingleCsvName, ComparisonColumns>>,
      <<CompCsvName, SingleColumns>>, <<CompCaseCsvName, SingleColumns>>,
      <<SingleCsvName, MixedColumns>> }

\* the value of each column when it is numeric
Numeric(col) ==
    CASE col = "mean" -> 288
      [] col = "sample size" -> 30
      [] col = "standard dev." -> 1
      [] col = "standard error" -> 2
      [] col = "test" -> 289
      [] col = "control" -> 287
      [] col = "diff" -> 3

\* the value cells of a row: all numeric, all missing, the mean a text, the
\* mean missing, the spread a text, only the mean present
AllNumeric == [c \in ValueColumns |-> Num(Numeric(c))]
AllMissing == [c \in ValueColumns |-> NaN]
MeanText == [c \in ValueColumns |-> IF c \in {"mean", "test"} THEN Text("abc") ELSE Num(Numeric(c))]
MeanMissing == [c \in ValueColumns |-> IF c \in {"mean", "test"} THEN NaN ELSE Num(Numeric(c))]
SpreadText == [c \in ValueColumns |-> IF c \in {"standard dev.", "diff"} THEN Text("n/a") ELSE Num(Numeric(c))]
OnlyMean == [c \in ValueColumns |-> IF c \in {"mean", "test"} THEN Num(Numeric(c)) ELSE NaN]

\* the rows of the model: variable cell, unit cell, value cells
RowChoices ==
    { <<Text("TS"), Text("K"), AllNumeric>>, <<Text("TS"), Text("K"), MeanText>>,
      <<Text("TS"), NaN, AllMissing>>, <<Text("TS"), Text("K"), AllMissing>>,
      <<Text("TS"), NaN, OnlyMean>>, <<Text(" TS"), Text("K"), SpreadText>>,
      <<Text(" TS"), NaN, MeanMissing>>, <<Text("PS"), NaN, AllNumeric>>,
      <<Text("PS"), Text("K"), OnlyMean>>, <<NaN, Text("K"), AllNumeric>> }

ColumnSet(columns) == { columns[i] : i \in 1..Len(columns) }

RowOf(columns, var, unit, pat) ==
    [c \in ColumnSet(columns) |->
        IF c = "variable" THEN var ELSE IF c = "unit" THEN unit ELSE pat[c]]

RowsOf(columns) == { RowOf(columns, r[1], r[2], r[3]) : r \in RowChoices }

CsvInputs ==
    UNION { { [kind |-> "csv", filename |-> l[1], df |-> [columns |-> l[2], rows |-> rows]] :
                rows \in SeqsUpTo(RowsOf(l[2]), MaxRows) } : l \in Layouts }

\* the files of a diagnostics directory
FileYears == [ path |-> <<"diag", "yrs_2_21", SingleCsvName>>,
               df |-> [columns |-> SingleColumns,
                       rows |-> << RowOf(SingleColumns, Text("TS"), Text("K"),
                                         AllNumeric) >>] ]
FileComp == [ path |-> <<"diag", "yrs_2_21", CompCsvName>>,
              df |-> [columns |-> ComparisonColumns,
                      rows |-> << RowOf(ComparisonColumns, Text("TS"), Text("K"),
                                        AllNumeric) >>] ]
FileSeason == [ path |-> <<"diag", SeasonCsvName>>,
                df |-> [columns |-> BareColumns,
                        rows |-> << RowOf(BareColumns, Text("PS"), NaN,
                                          AllNumeric) >>] ]
FileBroken == [ path |-> <<"diag", "yrs_22_41", SingleCsvName>>, df |-> None ]
FileANN == [ path |-> <<"diag", SingleCsvName>>,
             df |-> [columns |-> SingleColumns,
                     rows |-> << RowOf(SingleColumns, Text("PS"), NaN,
                                       OnlyMean) >>] ]
DirFiles == {FileYears, FileComp, FileSeason, FileBroken, FileANN}

DirInputs ==
    { [kind |-> "dir", files |-> q, diagnostic_id |-> 1] :
        q \in { x \in SeqsUpTo(DirFiles, MaxFiles) : IsInjective(x) } }

(***************************************************************************)
(* CaseParser (src/parsers/case_parser.py).  A string is the sequence of   *)
(* its characters; an Optional[str] is None or [str |-> characters].       *)
(***************************************************************************)
Lower == {"a", "b", "c", "d", "e", "f", "g", "h", "i", "j", "k", "l", "m",
          "n", "o", "p", "q", "r", "s", "t", "u", "v", "w", "x", "y", "z"}
Upper == {"A", "B", "C", "D", "E", "F", "G", "H", "I", "J", "K", "L", "M",
          "N", "O", "P", "Q", "R", "S", "T", "U", "V", "W", "X", "Y", "Z"}
Digit == {"0", "1", "2", "3", "4", "5", "6", "7", "8", "9"}
Space == {" "}

Some(chars) == [str |-> chars]

\* every character of s[a..b] is in the class
AllIn(s, a, b, class) == \A k \in a..b : s[k] \in class

\* \w at position i, and \b between positions i-1 and i
IsWordAt(s, i) == i \in 1..Len(s) /\ s[i] \in Lower \cup Upper \cup Digit \cup {"_"}
Boundary(s, i) == IsWordAt(s, i - 1) # IsWordAt(s, i)

\* str.strip()
str_strip(s) ==
    LET kept == { i \in 1..Len(s) : s[i] \notin Space }
    IN  IF kept = {} THEN << >> ELSE SubSeq(s, SetMin(kept), SetMax(kept))

\* the ways case_pattern matches the whole of s: the positions of the three
\* dots that delimit experiment_id, compset, resolution and case_number
case_pattern_splits(s) ==
    LET dots == { i \in 1..Len(s) : s[i] = "." }
    IN  { t \in dots \X dots \X dots :
            /\ 1 < t[1] /\ t[1] + 2 < t[2] /\ t[2] + 1 < t[3] /\ t[3] < Len(s)
            /\ AllIn(s, 1, t[1] - 1, Lower \cup Upper \cup Digit \cup {".", "_", "-"})
            /\ s[t[1] + 1] \in Upper
            /\ AllIn(s, t[1] + 2, t[2] - 1, Upper \cup Digit \cup {"_"})
            /\ AllIn(s, t[2] + 1, t[3] - 1, Lower \cup Digit \cup {"_"})
            /\ AllIn(s, t[3] + 1, Len(s), Digit) }

\* case_pattern.match: the greedy experiment_id takes the longest prefix
case_pattern_match(s) ==
    LET splits == case_pattern_splits(s)
    IN  IF splits = {} THEN None
        ELSE LET t == CHOOSE x \in splits : \A y \in splits : y[1] <= x[1]
             IN  [ experiment_id |-> SubSeq(s, 1, t[1] - 1),
                   compset |-> SubSeq(s, t[1] + 1, t[2] - 1),
                   resolution |-> SubSeq(s, t[2] + 1, t[3] - 1),
                   case_number |-> SubSeq(s, t[3] + 1, Len(s)) ]

\* re.search(r'\b([A-Z][A-Z0-9_]+)\b', s): leftmost start, longest end
compset_ends(s, i) ==
    IF ~(Boundary(s, i) /\ s[i] \in Upper) THEN {}
    ELSE { j \in i + 1..Len(s) :
             /\ Boundary(s, j + 1)
             /\ AllIn(s, i + 1, j, Upper \cup Digit \cup {"_"}) }
compset_search(s) ==
    LET starts == { i \in 1..Len(s) : compset_ends(s, i) # {} }
    IN  IF starts = {} THEN None
        ELSE Some(SubSeq(s, SetMin(starts), SetMax(compset_ends(s, SetMin(starts)))))

\* re.search(r'\b([a-z0-9]+_[a-z0-9_]+)\b', s)
resolution_ends(s, i) ==
    IF ~(Boundary(s, i) /\ s[i] \in Lower \cup Digit) THEN {}
    ELSE { j \in i + 2..Len(s) :
             /\ Boundary(s, j + 1)
             /\ \E u \in i + 1..j - 1 :
                   /\ s[u] = "_"
                   /\ AllIn(s, i, u - 1, Lower \cup Digit)
                   /\ AllIn(s, u + 1, j, Lower \cup Digit \cup {"_"}) }
resolution_search(s) ==
    LET starts == { i \in 1..Len(s) : resolution_ends(s, i) # {} }
    IN  IF starts = {} THEN None
        ELSE Some(SubSeq(s, SetMin(starts), SetMax(resolution_ends(s, SetMin(starts)))))

\* re.search(r'\.(\d+)$', s)
number_search(s) ==
    LET starts == { i \in 1..Len(s) - 1 : s[i] = "." /\ AllIn(s, i + 1, Len(s), Digit) }
    IN  IF starts = {} THEN None
        ELSE Some(SubSeq(s, SetMin(starts) + 1, Len(s)))

CaseMetadata(case_name, experiment_id, compset, resolution, case_number) ==
    [ case_name |-> case_name, experiment_id |-> experiment_id, compset |-> compset,
      resolution |-> resolution, case_number |-> case_number ]

\* the fallback branch of parse_case_name, on the stripped name
parse_case_name_fallback(name) ==
    CaseMetadata(name, None, compset_search(name), resolution_search(name), number_search(name))

parse_case_name_matched_never(name, m) == parse_case_name_fallback(name)

\* parse_case_name with the pattern match m of the stripped name
parse_case_name_matched(name, m) ==
    IF m # None
    THEN CaseMetadata(name, Some(m.experiment_id), Some(m.compset),
                      Some(m.resolution), Some(m.case_number))
    ELSE parse_case_name_fallback(name)

\* parse_case_name
parse_case_name(case_name) ==
    IF case_name = << >> THEN CaseMetadata(<< >>, None, None, None, None)
    ELSE parse_case_name_matched(str_strip(case_name), case_pattern_match(str_strip(case_name)))

(***************************************************************************)
(* The case names SpecCase runs against: up to MaxParts parts joined by    *)
(* dots, with or without a leading "b." and a trailing blank, and the name *)
(* the parser documents.                                                   *)
(***************************************************************************)
MaxParts == 4

Parts ==
    { <<"b">>, <<"e", "3", "_", "a">>, <<"B", "1">>, <<"B">>, <<"0", "1">> }

RECURSIVE JoinDots(_)
JoinDots(parts) ==
    IF parts = << >> THEN << >>
    ELSE IF Len(parts) = 1 THEN Head(parts)
    ELSE Head(parts) \o <<".">> \o JoinDots(Tail(parts))

\* b.e30_alpha08b.B1850C_LTso.ne30_t232_wgx3.308
DocumentedCaseName ==
    JoinDots(<< <<"b">>,
                <<"e", "3", "0", "_", "a", "l", "p", "h", "a", "0", "8", "b">>,
                <<"B", "1", "8", "5", "0", "C", "_", "L", "T", "s", "o">>,
                <<"n", "e", "3", "0", "_", "t", "2", "3", "2", "_", "w", "g", "x", "3">>,
                <<"3", "0", "8">> >>)

CaseNameInputs ==
    { [kind |-> "case_name", parts |-> q, name |-> lead \o JoinDots(q) \o pad] :
        q \in SeqsUpTo(Parts, MaxParts), lead \in {<< >>, <<"b", ".">>}, pad \in {<< >>, <<" ">>} }
    \cup { [kind |-> "case_name", parts |-> << >>, name |-> DocumentedCaseName] }

(***************************************************************************)
(* IssueParser on the text of an issue (src/parsers/issue_parser.py).  A   *)
(* body is the sequence, in text order, of the matches its patterns find:  *)
(* glade paths (inside or outside the Case Directory section), mentions    *)
(* and diagnostic URLs.  list(set(x)) lists a set in the order the string  *)
(* hashes of the process give; that order is the parameter order.          *)
(***************************************************************************)
PathRuns == "/glade/campaign/cesm/runs/case"
PathRunsDot == "/glade/campaign/cesm/runs/case."
PathArchive == "/glade/derecho/scratch/cesm/archive/case"
PathClimo == "/glade/campaign/cgd/amp/amwg/climo/case"
GladePaths == {PathRuns, PathArchive, PathClimo}

UrlText1 == "https://webext.cgd.ucar.edu/adf/case/"
UrlText1Paren == "https://webext.cgd.ucar.edu/adf/case/)"
UrlText2 == "https://webext.cgd.ucar.edu/adf/case/atm/"
UrlTexts == {UrlText1, UrlText2}
UserNames == {"alice", "bob"}

\* re.sub(r'[.,;:!?)\]`]+$', '', path) and re.sub(r'[.,;:!?\)]+$', '', url)
clean_path(path) == IF path = PathRunsDot THEN PathRuns ELSE path
clean_url(url) == IF url = UrlText1Paren THEN UrlText1 ELSE url

\* 'runs' in path, 'cesm' in path.lower(), and the words of parse_issue_body
HasRuns(path) == path = PathRuns
HasCesm(path) == path \in {PathRuns, PathArchive}
IsDiagnosticPath(path) == path = PathClimo
IsOutputPath(path) == path = PathArchive

\* list(set(values)): the distinct values in the order of the process's hashes
ListOfSet(values, hash_order) ==
    SelectSeq(hash_order, LAMBDA x : \E i \in 1..Len(values) : values[i] = x)

\* pattern.findall(text): the matches of one kind, in text order
RECURSIVE findall(_, _)
findall(body, kind) ==
    IF body = << >> THEN << >>
    ELSE (IF Head(body).kind = kind THEN << Head(body).text >> ELSE << >>)
         \o findall(Tail(body), kind)

\* the glade paths inside the Case Directory section
RECURSIVE findall_section(_)
findall_section(body) ==
    IF body = << >> THEN << >>
    ELSE (IF Head(body).kind = "path" /\ Head(body).section THEN << Head(body).text >> ELSE << >>)
         \o findall_section(Tail(body))

CleanAll(matches, path_like) ==
    [i \in 1..Len(matches) |-> IF path_like THEN clean_path(matches[i]) ELSE clean_url(matches[i])]

\* extract_file_paths, extract_contacts, extract_diagnostic_urls on the matches
extract_file_paths(matches, order) == ListOfSet(CleanAll(matches, TRUE), order.paths)
extract_contacts(matches, order) == ListOfSet(matches, order.names)
extract_diagnostic_urls_text(matches, order) == ListOfSet(CleanAll(matches, FALSE), order.urls)

\* section_patterns['purpose'].search(body): the stripped text of the first
\* Purpose section, None when the body has none
purpose_search(body) ==
    IF findall(body, "purpose") = << >> THEN None
    ELSE Some(findall(body, "purpose")[1])

\* parse_issue_body (the sections description, diagnostics and output are
\* left out)
parse_issue_body(body, order) ==
    [ purpose |-> purpose_search(body),
      case_directory |-> findall_section(body),
      paths |-> extract_file_paths(findall(body, "path"), order),
      diagnostic_paths |-> SelectSeq(extract_file_paths(findall(body, "path"), order), IsDiagnosticPath),
      output_paths |-> SelectSeq(extract_file_paths(findall(body, "path"), order), IsOutputPath),
      contacts |-> extract_contacts(findall(body, "mention"), order),
      diagnostic_urls |-> extract_diagnostic_urls_text(findall(body, "url"), order) ]

FirstOf(paths, Test(_)) == paths[SetMin({ i \in 1..Len(paths) : Test(paths[i]) })]
AnyOf(paths, Test(_)) == \E i \in 1..Len(paths) : Test(paths[i])
RunsOrCesm(path) == HasRuns(path) \/ HasCesm(path)
RunsAndCesm(path) == HasRuns(path) /\ HasCesm(path)

\* the second half of _extract_case_directory: "for path in all_paths"
case_directory_of_all_paths(all_paths) ==
    IF AnyOf(all_paths, RunsAndCesm) THEN Some(FirstOf(all_paths, RunsAndCesm)) ELSE None

\* _extract_case_directory with paths = extract_file_paths(case_dir)
case_directory_of_section(paths, all_paths) ==
    IF paths # << >>
    THEN IF AnyOf(paths, RunsOrCesm) THEN Some(FirstOf(paths, RunsOrCesm)) ELSE Some(paths[1])
    ELSE case_directory_of_all_paths(all_paths)

\* _extract_case_directory
extract_case_directory(sections, order) ==
    case_directory_of_section(extract_file_paths(sections.case_directory, order), sections.paths)

\* _extract_case_name_from_title: both branches return title.strip()
extract_case_name_from_title(title) ==
    IF title = << >> THEN None
    ELSE IF parse_case_name(title).compset # None \/ parse_case_name(title).resolution # None
    THEN Some(str_strip(title))
    ELSE Some(str_strip(title))

\* "if not parsed.case_name", "if not parsed.purpose": absent or empty
Falsy(opt) == opt = None \/ opt.str = << >>

\* the warnings parse_full_issue appends to parsing_warnings
parsing_warnings(case_name, purpose) ==
    (IF Falsy(case_name) THEN << "Could not extract case name from title" >> ELSE << >>)
    \o (IF Falsy(purpose) THEN << "No purpose section found" >> ELSE << >>)

ParsedIssue(issue_number, title, case_name, sections, case_directory) ==
    [ issue_number |-> issue_number, title |-> title, case_name |-> case_name,
      purpose |-> sections.purpose,
      parsing_warnings |-> parsing_warnings(case_name, sections.purpose),
      case_directory |-> case_directory,
      diagnostics_paths |-> sections.diagnostic_paths,
      output_paths |-> sections.output_paths,
      contacts |-> sections.contacts,
      diagnostic_urls |-> sections.diagnostic_urls ]

\* parse_full_issue with sections = parse_issue_body(body)
parsed_issue_of(issue_data, sections, order) ==
    ParsedIssue(issue_data.number, issue_data.title,
                extract_case_name_from_title(issue_data.title),
                sections, extract_case_directory(sections, order))

\* parse_full_issue on the text of the issue
parse_full_issue_text(issue_data, order) ==
    parsed_issue_of(issue_data, parse_issue_body(issue_data.body, order), order)

(***************************************************************************)
(* The issues SpecIssue runs against and the hash orders of a process.     *)
(***************************************************************************)
MaxMatches == 2

BodyTokens ==
    { [kind |-> "path", text |-> p, section |-> s] :
        p \in GladePaths \cup {PathRunsDot}, s \in BOOLEAN }
    \cup { [kind |-> "mention", text |-> u, section |-> FALSE] : u \in UserNames }
    \cup { [kind |-> "purpose", text |-> <<"r", "u", "n">>, section |-> FALSE] }
    \cup { [kind |-> "url", text |-> u, section |-> FALSE] : u \in UrlTexts \cup {UrlText1Paren} }

\* the Case Directory section is one stretch of the text
SectionContiguous(body) ==
    \A i, j, k \in 1..Len(body) :
        (i < j /\ j < k /\ body[i].section /\ body[k].section /\ body[j].kind = "path")
            => body[j].section

Bodies == { b \in SeqsUpTo(BodyTokens, MaxMatches) : SectionContiguous(b) }

Titles == { << >>, <<" ">>, <<" ", " ">>, <<"b", ".", "B", "1", ".", "e", "3", "_", "a", ".", "0", "1">>,
            <<"n", "o", "t", "e", "s">> }

IssueTextInputs ==
    { [kind |-> "issue", number |-> 1, title |-> t, body |-> b] : t \in Titles, b \in Bodies }

Perms(S) == { q \in [1..Cardinality(S) -> S] : IsInjective(q) }

HashOrders == [ paths : Perms(GladePaths), names : Perms(UserNames), urls : Perms(UrlTexts) ]

(***************************************************************************)
(* The per-item bodies of the three run modes (scripts/collect_data.py,    *)
(* scripts/update_data.py).  Each gives the database and the counters at   *)
(* the point the body ended, and in ev what it did; ev.raised is the       *)
(* exception that left the body, None when it ran to its end.              *)
(***************************************************************************)
\* the methods class ADFParser defines
ADFParserMethods ==
    { "parse_csv_table", "_is_comparison_table", "extract_statistics_from_csv",
      "extract_summary_statistics", "infer_temporal_period", "classify_csv_file",
      "parse_all_tables_in_directory", "extract_statistics_list" }

\* the attribute lookup adf_parser.<method>
adf_parser_attr(method) ==
    IF method \in ADFParserMethods THEN None
    ELSE Raised("AttributeError",
                "'ADFParser' object has no attribute '" \o method \o "'")

\* what the environment can make a file read or a database write raise
EnvExceptions ==
    { Raised("MemoryError", ""), Raised("OSError", "[Errno 5] Input/output error") }

\* isfile(CaseDocs/atm_in) and parse_namelist: no file, a namelist, or an exception
NamelistOutcomes == { [outcome |-> "nofile"], [outcome |-> "parsed"] } \cup EnvExceptions

\* extract_statistics_list and bulk_insert_statistics: the rows stored, or an exception
StatsOutcomes == { [count |-> 2] } \cup EnvExceptions

\* IssueParser.parse_full_issue
parse_full_issue(issue_data) ==
    [ case_name |-> issue_data.body.case_name,
      case_directory |-> issue_data.body.case_directory,
      diagnostics_paths |-> issue_data.body.diagnostics_paths,
      diagnostic_urls |-> issue_data.body.diagnostic_urls ]

\* IssueParser.extract_diagnostic_urls
extract_diagnostic_urls(body) == body.diagnostic_urls

\* FilesystemCollector.case_directory_exists
case_directory_exists(fs, case_name) ==
    exists(fs, join(CESM_RUNS_BASE, case_name)) /\ isdir(fs, join(CESM_RUNS_BASE, case_name))

\* issue_data.get('user', {}).get('login'): raises when user is null
author_of(issue_data) ==
    IF issue_data.user = None
    THEN Raised("AttributeError", "'NoneType' object has no attribute 'get'")
    ELSE issue_data.user

\* "not (diagnostics_info and diagnostics_info.exists)" answering always yes
needs_web_fallback_always(diagnostics_info) == TRUE

\* not (diagnostics_info and diagnostics_info.exists)
needs_web_fallback(diagnostics_info) ==
    ~(diagnostics_info # None /\ diagnostics_info.exists)

\* "diagnostics_info is not None and diagnostics_info.exists" answering always yes
has_diagnostics_of_always(diagnostics_info) == TRUE

\* diagnostics_info is not None and diagnostics_info.exists
has_diagnostics_of(diagnostics_info) ==
    diagnostics_info # None /\ diagnostics_info.exists

AddError(st, text) == [st EXCEPT !.errors = Append(@, text)]

\* f"Issue #{issue_num}: "
IssuePrefix(issue_num) == "Issue #" \o ToString(issue_num) \o ": "

\* the except clause of the per-issue loop that drops the exception
on_issue_exception_dropped(st, issue_num, e) == st

\* the except clause of the per-issue loop
on_issue_exception(st, issue_num, e) == AddError(st, IssuePrefix(issue_num) \o e.msg)

\* what a loop body did, before it did anything
Ev0(item) ==
    [ item |-> item, raised |-> None, local_called |-> FALSE, local |-> None,
      urls |-> << >>, remote_called |-> FALSE, fetches |-> << >>,
      stored |-> FALSE, case_row |-> None, errors_added |-> 0, diag |-> None ]

\* the namelist a body stores: TRUE when atm_in was found and parsed
ParsedNamelist(fs, case_dir, nm) ==
    /\ case_dir # NoPath
    /\ isdir(fs, case_dir)
    /\ ~IsRaised(nm)
    /\ nm.outcome = "parsed"

\* the CSV tables below a diagnostics directory that holds table files: one at
\* the top and one below yrs_2_21, each with the mean of TS
RunTable == [ columns |-> BareColumns,
              rows |-> << RowOf(BareColumns, Text("TS"), NaN, OnlyMean) >> ]
RunCsvFiles(diag_dir) ==
    << [path |-> diag_dir \o <<"amwg_table.csv">>, df |-> RunTable],
       [path |-> diag_dir \o <<"yrs_2_21", "amwg_table.csv">>, df |-> RunTable] >>

\* "stats_list = adf_parser.extract_statistics_list(...); if stats_list:
\* db.bulk_insert_statistics(stats_list)" with xs what the two calls raised
store_statistics(d, diag_dir, diag_id, xs) ==
    IF IsRaised(xs) THEN d
    ELSE bulk_insert_statistics(d, extract_statistics_list(RunCsvFiles(diag_dir), diag_id))

\* what upsert_diagnostic was called for and the id it returned
DiagCall(d, case_id, path) == [id |-> d.lastrowid, case_id |-> case_id, path |-> path]

\* collect_data.main, "if diagnostics_info and diagnostics_info.exists:" branch
full_store_diagnostics(d, st, issue_num, name, diagnostics_info, web_result, xs, ev) ==
    LET diag_source == Get(diagnostics_info, "source", "filesystem")
        d4 == upsert_diagnostic(d, [ case_id |-> name,
                                     diagnostic_type |-> diagnostics_info.diagnostic_type,
                                     path |-> diagnostics_info.path,
                                     last_modified |-> diagnostics_info.last_modified,
                                     file_count |-> diagnostics_info.file_count,
                                     source |-> diag_source ])
        st3 == [st EXCEPT !.diagnostics_found = @ + 1]
        html == adf_parser_attr("extract_statistics_from_html_tables")
        year == adf_parser_attr("extract_year_range")
        ev4 == [ev EXCEPT !.diag = DiagCall(d4, name, diagnostics_info.path)]
    IN  IF diag_source = "web" /\ web_result # None
        THEN [ db |-> d4,
               stats |-> IF IsRaised(html)
                         THEN AddError(st3, IssuePrefix(issue_num)
                                \o "Web statistics extraction failed - " \o html.msg)
                         ELSE st3,
               ev |-> ev4 ]
        ELSE IF diagnostics_info.file_count > 0
        THEN [ db |-> store_statistics(d4, diagnostics_info.path, d4.lastrowid, xs),
               stats |-> IF IsRaised(xs)
                         THEN AddError(st3, IssuePrefix(issue_num)
                                \o "Statistics extraction failed - " \o xs.msg)
                         ELSE [st3 EXCEPT !.statistics_extracted = @ + xs.count],
               ev |-> IF IsRaised(year) THEN [ev4 EXCEPT !.raised = year] ELSE ev4 ]
        ELSE [db |-> d4, stats |-> st3, ev |-> ev4]

\* collect_data.main, from "case_db_data = {" to the end of the try block
full_store_case(d, st, issue_num, name, fs, xs, nm, ev, case_dir, diagnostics_info, web_result) ==
    LET d2 == upsert_case(d,
                [ case_name |-> name,
                  issue_id |-> issue_num,
                  case_directory |-> case_dir,
                  diagnostics_directory |-> IF diagnostics_info # None
                                            THEN diagnostics_info.path ELSE NoPath,
                  has_diagnostics |-> has_diagnostics_of(diagnostics_info),
                  diagnostics_url |-> IF web_result # None THEN web_result.source_url
                                      ELSE None ])
        st2 == [st EXCEPT !.cases_created = @ + 1]
        d3 == update_case_namelist(d2, name, ParsedNamelist(fs, case_dir, nm))
    IN  IF diagnostics_info # None /\ diagnostics_info.exists
        THEN full_store_diagnostics(d3, st2, issue_num, name, diagnostics_info,
                                    web_result, xs, ev)
        ELSE [db |-> d3, stats |-> st2, ev |-> ev]

\* collect_data.main, after the web fallback: w is what find_diagnostics_from_urls
\* gave and the fetches it made (None and no fetch when it was not called)
full_after_web(d, st, issue_num, name, fs, xs, nm, ev, case_dir, local, w) ==
    IF IsRaised(w.value)
    THEN [db |-> d, stats |-> st, ev |-> [ev EXCEPT !.fetches = w.log,
                                                    !.raised = w.value]]
    ELSE full_store_case(d, st, issue_num, name, fs, xs, nm,
                         [ev EXCEPT !.fetches = w.log, !.stored = TRUE], case_dir,
                         IF w.value # None THEN w.value.diagnostics_info ELSE local,
                         w.value)

\* collect_data.main, after find_diagnostics: the web fallback
full_after_local(d, st, issue_num, parsed_issue, fs, web, xs, nm, ev, case_dir, local) ==
    full_after_web(d, st, issue_num, parsed_issue.case_name, fs, xs, nm,
        [ev EXCEPT !.local_called = TRUE, !.local = local,
                   !.urls = parsed_issue.diagnostic_urls,
                   !.remote_called = /\ needs_web_fallback(local)
                                     /\ parsed_issue.diagnostic_urls # << >>],
        case_dir, local,
        IF needs_web_fallback(local) /\ parsed_issue.diagnostic_urls # << >>
        THEN find_diagnostics_from_urls(web, parsed_issue.diagnostic_urls,
                                        parsed_issue.case_name)
        ELSE [value |-> None, log |-> << >>])

\* collect_data.main: "case_dir = parsed_issue.case_directory" and the lookup by name
full_case_dir(parsed_issue, fs) ==
    IF parsed_issue.case_directory # NoPath THEN parsed_issue.case_directory
    ELSE IF case_directory_exists(fs, parsed_issue.case_name)
    THEN join(CESM_RUNS_BASE, parsed_issue.case_name)
    ELSE NoPath

\* collect_data.main, "if parsed_issue.case_name:" branch
full_process_case(d, st, issue_num, parsed_issue, fs, web, xs, nm, ev) ==
    full_after_local(d, st, issue_num, parsed_issue, fs, web, xs, nm, ev,
        full_case_dir(parsed_issue, fs),
        find_diagnostics(fs, parsed_issue.case_name, full_case_dir(parsed_issue, fs),
                         parsed_issue.diagnostics_paths))

\* the try block counting the issue before issue_db_data is built
process_issue_full_counting_first(d, st, issue_data, fs, web, xs, nm) ==
    LET issue_num == issue_data.number
        parsed_issue == parse_full_issue(issue_data)
        author == author_of(issue_data)
        d1 == upsert_issue(d, [ issue_number |-> issue_num,
                                body |-> issue_data.body,
                                case_name |-> parsed_issue.case_name ])
        st1 == [st EXCEPT !.issues_processed = @ + 1]
    IN  IF IsRaised(author)
        THEN [db |-> d, stats |-> st1, ev |-> [Ev0(issue_num) EXCEPT !.raised = author]]
        ELSE IF parsed_issue.case_name # NoName
        THEN full_process_case(d1, st1, issue_num, parsed_issue, fs, web, xs, nm,
                               Ev0(issue_num))
        ELSE [db |-> d1, stats |-> st1, ev |-> Ev0(issue_num)]

\* collect_data.main: the try block of the per-issue loop
process_issue_full(d, st, issue_data, fs, web, xs, nm) ==
    LET issue_num == issue_data.number
        parsed_issue == parse_full_issue(issue_data)
        author == author_of(issue_data)
        d1 == upsert_issue(d, [ issue_number |-> issue_num,
                                body |-> issue_data.body,
                                case_name |-> parsed_issue.case_name ])
        st1 == [st EXCEPT !.issues_processed = @ + 1]
    IN  IF IsRaised(author)
        THEN [db |-> d, stats |-> st, ev |-> [Ev0(issue_num) EXCEPT !.raised = author]]
        ELSE IF parsed_issue.case_name # NoName
        THEN full_process_case(d1, st1, issue_num, parsed_issue, fs, web, xs, nm,
                               Ev0(issue_num))
        ELSE [db |-> d1, stats |-> st1, ev |-> Ev0(issue_num)]

\* update_incremental: the try block of the per-issue loop
process_issue_incremental(d, st, issue_data, fs, nm) ==
    LET issue_num == issue_data.number
        parsed_issue == parse_full_issue(issue_data)
        name == parsed_issue.case_name
        author == author_of(issue_data)
        d1 == upsert_issue(d, [ issue_number |-> issue_num,
                                body |-> issue_data.body,
                                case_name |-> name ])
        st1 == [st EXCEPT !.issues_processed = @ + 1]
        d2 == upsert_case(d1, [case_name |-> name, issue_id |-> issue_num])
        st2 == [st1 EXCEPT !.cases_updated = @ + 1]
        existing_case == d2.cases[name]
        case_dir == existing_case.case_directory
    IN  IF IsRaised(author)
        THEN [db |-> d, stats |-> st, ev |-> [Ev0(issue_num) EXCEPT !.raised = author]]
        ELSE IF name = NoName
        THEN [db |-> d1, stats |-> st1, ev |-> Ev0(issue_num)]
        ELSE [ db |-> IF /\ ~existing_case.atm_in_namelist
                         /\ ParsedNamelist(fs, case_dir, nm)
                      THEN update_case_namelist(d2, name, TRUE)
                      ELSE d2,
               stats |-> st2,
               ev |-> [Ev0(issue_num) EXCEPT !.stored = TRUE] ]

\* update_diagnostics, "if diagnostics_info and diagnostics_info.exists:" branch
rescan_store_diagnostics(d, st, case, diagnostics_info, web_result, xs, ev) ==
    LET diag_source == Get(diagnostics_info, "source", "filesystem")
        d1 == upsert_case(d, [ case_name |-> case.case_name,
                               diagnostics_directory |-> diagnostics_info.path,
                               has_diagnostics |-> TRUE,
                               diagnostics_url |-> IF web_result # None
                                                   THEN web_result.source_url
                                                   ELSE None ])
        d2 == upsert_diagnostic(d1, [ case_id |-> case.id,
                                      diagnostic_type |-> diagnostics_info.diagnostic_type,
                                      path |-> diagnostics_info.path,
                                      last_modified |-> diagnostics_info.last_modified,
                                      file_count |-> diagnostics_info.file_count,
                                      source |-> diag_source ])
        st1 == [st EXCEPT !.diagnostics_found = @ + 1]
        html == adf_parser_attr("extract_statistics_from_html_tables")
        year == adf_parser_attr("extract_year_range")
        ev1 == [ev EXCEPT !.stored = TRUE,
                          !.diag = DiagCall(d2, case.id, diagnostics_info.path)]
    IN  IF diag_source = "web" /\ web_result # None
        THEN [ db |-> d2,
               stats |-> IF IsRaised(html) THEN AddError(st1, html.msg) ELSE st1,
               ev |-> ev1 ]
        ELSE IF diagnostics_info.file_count > 0
        THEN [ db |-> store_statistics(d2, diagnostics_info.path, d2.lastrowid, xs),
               stats |-> IF IsRaised(xs) THEN AddError(st1, xs.msg)
                         ELSE [st1 EXCEPT !.statistics_extracted = @ + xs.count],
               ev |-> IF IsRaised(year) THEN [ev1 EXCEPT !.raised = year] ELSE ev1 ]
        ELSE [db |-> d2, stats |-> st1, ev |-> ev1]

\* update_diagnostics, after the web fallback: w is what find_diagnostics_from_urls
\* gave and the fetches it made (None and no fetch when it was not called)
rescan_after_web(d, st, case, xs, ev, local, w) ==
    IF IsRaised(w.value)
    THEN [db |-> d, stats |-> st, ev |-> [ev EXCEPT !.fetches = w.log,
                                                    !.raised = w.value]]
    ELSE IF w.value # None
    THEN rescan_store_diagnostics(d, st, case, w.value.diagnostics_info, w.value, xs,
                                  [ev EXCEPT !.fetches = w.log])
    ELSE IF local # None /\ local.exists
    THEN rescan_store_diagnostics(d, st, case, local, None, xs,
                                  [ev EXCEPT !.fetches = w.log])
    ELSE [db |-> d, stats |-> st, ev |-> [ev EXCEPT !.fetches = w.log]]

\* update_diagnostics: the candidate URLs of a case, from the stored URL or else
\* from the body of its issue
rescan_candidate_urls(d, case) ==
    IF case.diagnostics_url # None THEN << case.diagnostics_url >>
    ELSE IF /\ case.issue_id # 0
            /\ case.issue_id \in DOMAIN d.issues
            /\ d.issues[case.issue_id].body # None
    THEN extract_diagnostic_urls(d.issues[case.issue_id].body)
    ELSE << >>

\* update_diagnostics, after find_diagnostics: the web fallback
rescan_after_local(d, st, case, web, xs, local) ==
    rescan_after_web(d, st, case, xs,
        [Ev0(case.case_name) EXCEPT
            !.local_called = TRUE, !.local = local,
            !.urls = IF needs_web_fallback(local) THEN rescan_candidate_urls(d, case)
                     ELSE << >>,
            !.remote_called = /\ needs_web_fallback(local)
                              /\ rescan_candidate_urls(d, case) # << >>],
        local,
        IF needs_web_fallback(local) /\ rescan_candidate_urls(d, case) # << >>
        THEN find_diagnostics_from_urls(web, rescan_candidate_urls(d, case),
                                        case.case_name)
        ELSE [value |-> None, log |-> << >>])

\* update_diagnostics: the body of the loop over the cases without diagnostics
process_case_diagnostics(d, st, case, fs, web, xs) ==
    rescan_after_local(d, st, case, web, xs,
        find_diagnostics(fs, case.case_name, case.case_directory, << >>))

\* update_diagnostics: the body of the loop that backfills atm_in namelists
backfill_case(d, st, case, fs, nm) ==
    IF \/ case.atm_in_namelist
       \/ case.case_directory = NoPath
       \/ ~isdir(fs, case.case_directory)
    THEN [db |-> d, stats |-> st]
    ELSE IF IsRaised(nm)
    THEN [db |-> d, stats |-> AddError(st, nm.msg)]
    ELSE IF nm.outcome = "parsed"
    THEN [db |-> update_case_namelist(d, case.id, TRUE), stats |-> st]
    ELSE [db |-> d, stats |-> st]

\* the stats dict each mode starts with
InitialStats(m) ==
    IF m = "full"
    THEN [ issues_processed |-> 0, cases_created |-> 0, diagnostics_found |-> 0,
           statistics_extracted |-> 0, errors |-> << >> ]
    ELSE IF m = "incremental"
    THEN [issues_processed |-> 0, cases_updated |-> 0, errors |-> << >>]
    ELSE [diagnostics_found |-> 0, statistics_extracted |-> 0, errors |-> << >>]

\* the call of complete_update_log each mode ends with
CompleteCall(m, row, st) ==
    IF m = "full"
    THEN complete_update_log(row, st.issues_processed, st.cases_created,
                             st.diagnostics_found, ErrorsArg(st.errors))
    ELSE IF m = "incremental"
    THEN complete_update_log(row, st.issues_processed, st.cases_updated, 0,
                             ErrorsArg(st.errors))
    ELSE complete_update_log(row, 0, 0, st.diagnostics_found, ErrorsArg(st.errors))

(***************************************************************************)
(* The issues, databases, filesystems and web servers the runs draw from   *)
(***************************************************************************)
UrlLists == { << >>, << Table1 >>, << Dir0 >> }

Body(c, urls) ==
    [ case_name |-> c, case_directory |-> NoPath, diagnostics_paths |-> << >>,
      diagnostic_urls |-> urls ]

\* an issue whose user is null, an issue without a case name, and issues of two
\* cases with each list of diagnostic URLs
IssueInputs ==
    { [user |-> None, body |-> Body(CaseName, << >>)],
      [user |-> [login |-> "octocat"], body |-> Body(NoName, << >>)] }
    \cup { [user |-> [login |-> "octocat"], body |-> Body(c, u)] :
             c \in {CaseNameSeq[1], CaseNameSeq[2]}, u \in UrlLists }

IssueLists ==
    UNION { { [k \in 1..n |-> [number |-> k, user |-> q[k].user, body |-> q[k].body]] :
                q \in [1..n -> IssueInputs] } : n \in 0..MaxIssues }

Climo == join(AMWG_CLIMO_BASE, CaseName)

\* a case row an earlier run left: with or without diagnostics, with or without a
\* case directory, and with a stored URL, a URL in the issue body, or none
DbCaseInputs ==
    [ has_diagnostics : BOOLEAN, has_dir : BOOLEAN, urls : {"none", "stored", "body"} ]

DbOf(q) ==
    LET n == Len(q)
        at(c) == CHOOSE k \in 1..n : CaseNameSeq[k] = c
        withDiag == SelectSeq([k \in 1..n |-> k], LAMBDA k : q[k].has_diagnostics)
    IN  [ issues |-> [ k \in 1..n |->
            [ body |-> Body(CaseNameSeq[k],
                            IF q[k].urls = "body" THEN << Dir0 >> ELSE << >>),
              case_name |-> CaseNameSeq[k] ] ],
          cases |-> [ c \in { CaseNameSeq[k] : k \in 1..n } |->
            [ issue_id |-> at(c),
              case_directory |-> IF q[at(c)].has_dir THEN join(CESM_RUNS_BASE, c)
                                 ELSE NoPath,
              diagnostics_directory |-> IF q[at(c)].has_diagnostics
                                        THEN join(AMWG_CLIMO_BASE, c) ELSE NoPath,
              has_diagnostics |-> q[at(c)].has_diagnostics,
              diagnostics_url |-> IF q[at(c)].urls = "stored" THEN Table1 ELSE None,
              atm_in_namelist |-> FALSE ] ],
          diagnostics |-> [ j \in 1..Len(withDiag) |->
            [ case_id |-> CaseNameSeq[withDiag[j]],
              diagnostic_type |-> "AMWG",
              path |-> join(AMWG_CLIMO_BASE, CaseNameSeq[withDiag[j]]),
              last_modified |-> NoTime,
              file_count |-> 0,
              source |-> "filesystem" ] ],
          statistics |-> << >>,
          update_logs |-> IF n = 0 THEN 0 ELSE 1,
          lastrowid |-> 0 ]

Databases == UNION { { DbOf(q) : q \in [1..n -> DbCaseInputs] } : n \in 0..MaxIssues }

\* the database a full collection left that found the tables of CaseName below
\* its climo directory, opened by a new connection
DbAfterCollection ==
    [ process_issue_full(log_update_insert(EmptyDb), InitialStats("full"),
          [number |-> 1, user |-> [login |-> "octocat"], body |-> Body(CaseName, << >>)],
          MakeFs({CaseDir, Climo},
                 [d \in {CaseDir, Climo} |-> IF d = Climo THEN "tables" ELSE "empty"],
                 <<Glob1, Glob2>>),
          NoWeb, [count |-> 2], [outcome |-> "nofile"]).db
      EXCEPT !.lastrowid = 0 ]

\* what full collection and incremental update start from
EarlierDatabases == { EmptyDb, DbAfterCollection }

\* the case directory exists; the climo directory of CaseName is missing, empty,
\* or holds table files
RunFilesystems ==
    { MakeFs({CaseDir}, [d \in {CaseDir} |-> "empty"], <<Glob1, Glob2>>) }
    \cup { MakeFs({CaseDir, Climo},
                  [d \in {CaseDir, Climo} |-> IF d = Climo THEN kind ELSE "empty"],
                  <<Glob1, Glob2>>) : kind \in {"empty", "tables"} }

\* the server answers every page, fails on the table page, or fails on every page
RunWebs ==
    { MakeWeb(<< HrefTo(Table1) >>, << >>, down) :
        down \in { {}, {Table1}, {Dir0, Dir1, Table1} } }

RunIdle ==
    /\ mode = "full"
    /\ issues = << >>
    /\ cases = << >>
    /\ db = EmptyDb
    /\ update_log = None
    /\ stats = InitialStats("full")
    /\ idx = 0
    /\ pc = "idle"
    /\ trace = << >>

(***************************************************************************)
(* SpecWeb: find_diagnostics_from_urls, one loop iteration per step.       *)
(***************************************************************************)
InitWeb ==
    /\ \E l0 \in SeqsUpTo(Hrefs0, MaxLinks) :
         \E l1 \in SeqsUpTo(Hrefs1, MaxLinks - Len(l0)) :
            \E down \in SUBSET {Dir0, Dir1, Table1} :
               /\ (Dir0 \in down => l0 = << >>)
               /\ (Dir1 \in down => l1 = << >>)
               /\ wserver = MakeWeb(l0, l1, down)
    /\ wcands \in { q \in SeqsUpTo(CandidateUrls, MaxCands) : IsInjective(q) }
    /\ wi = 1
    /\ wtried = << >>
    /\ wlog = << >>
    /\ wret = None
    /\ wpc = "loop"
    /\ FindIdle
    /\ RunIdle
    /\ ParseIdle
    /\ GitIdle

\* one iteration of "for url in candidate_urls"
WebTry ==
    /\ wpc = "loop"
    /\ wi <= Len(wcands)
    /\ \E r \in {TryCandidate(wserver, wcands[wi], CaseName)} :
           /\ wlog' = wlog \o r.log
           /\ wtried' = Append(wtried, [url |-> wcands[wi],
                                        html_urls |-> r.html_urls,
                                        tables |-> r.tables,
                                        fetches |-> r.log])
           /\ IF r.next
              THEN wi' = wi + 1 /\ UNCHANGED <<wret, wpc>>
              ELSE /\ wret' = r.value
                   /\ wpc' = IF IsRaised(r.value) THEN "raised" ELSE "returned"
                   /\ UNCHANGED wi
    /\ UNCHANGED <<wserver, wcands>>
    /\ UNCHANGED varsFind
    /\ UNCHANGED varsRun
    /\ UNCHANGED varsParse
    /\ UNCHANGED varsGit

\* "return None" after the loop
WebReturnNone ==
    /\ wpc = "loop"
    /\ wi > Len(wcands)
    /\ wret' = None
    /\ wpc' = "returned"
    /\ UNCHANGED <<wserver, wcands, wi, wtried, wlog>>
    /\ UNCHANGED varsFind
    /\ UNCHANGED varsRun
    /\ UNCHANGED varsParse
    /\ UNCHANGED varsGit

NextWeb == WebTry \/ WebReturnNone

SpecWeb == InitWeb /\ [][NextWeb]_vars

(***************************************************************************)
(* SpecFind: find_diagnostics called once on a bounded filesystem.         *)
(***************************************************************************)
InitFind ==
    /\ \E X \in SUBSET CandidateDirs :
         /\ Cardinality(X) <= MaxDirs
         /\ \E content \in [X -> ContentKinds] :
              \E listing \in Listings :
                 /\ ({Glob1, Glob2} \subseteq X \/ listing = <<Glob1, Glob2>>)
                 /\ fsys = MakeFs(X, content, listing)
    /\ fargs = None
    /\ fret = None
    /\ WebIdle
    /\ RunIdle
    /\ ParseIdle
    /\ GitIdle

\* one call of find_diagnostics(case_name, case_dir, additional_paths)
FindDiagnostics ==
    /\ fargs = None
    /\ \E case_dir \in {NoPath, CaseDir} :
         \E additional_paths \in HintLists :
            /\ fargs' = [ case_name |-> CaseName, case_dir |-> case_dir,
                          additional_paths |-> additional_paths ]
            /\ fret' = find_diagnostics(fsys, CaseName, case_dir, additional_paths)
    /\ UNCHANGED fsys
    /\ UNCHANGED varsWeb
    /\ UNCHANGED varsRun
    /\ UNCHANGED varsParse
    /\ UNCHANGED varsGit

NextFind == FindDiagnostics

SpecFind == InitFind /\ [][NextFind]_vars

(***************************************************************************)
(* Spec: one run of collect_data.main (mode full), update_incremental or   *)
(* update_diagnostics, one loop iteration per step.                        *)
(***************************************************************************)
Init ==
    /\ mode \in {"full", "incremental", "diagnostics"}
    /\ issues \in IF mode = "diagnostics" THEN { << >> } ELSE IssueLists
    /\ db \in IF mode = "diagnostics" THEN Databases ELSE EarlierDatabases
    /\ fsys \in RunFilesystems
    /\ wserver \in RunWebs
    /\ cases = << >>
    /\ update_log = None
    /\ stats = InitialStats(mode)
    /\ idx = 0
    /\ pc = "start"
    /\ trace = << >>
    /\ fargs = None
    /\ fret = None
    /\ wcands = << >>
    /\ wi = 0
    /\ wtried = << >>
    /\ wlog = << >>
    /\ wret = None
    /\ wpc = "idle"
    /\ ParseIdle
    /\ GitIdle

UnchangedEnv == UNCHANGED <<fsys, fargs, fret, wserver, wcands, wi, wtried, wlog, wret, wpc, pfn, pargs, pret, varsGit>>

\* log_update, then the list the first loop runs over
StartRun ==
    /\ pc = "start"
    /\ update_log' = log_update(mode)
    /\ db' = log_update_insert(db)
    /\ cases' = IF mode = "diagnostics"
                THEN get_all_cases(db, [has_diagnostics |-> FALSE])
                ELSE << >>
    /\ idx' = 1
    /\ pc' = IF mode = "diagnostics" THEN "cases" ELSE "issues"
    /\ UNCHANGED <<mode, issues, stats, trace>>
    /\ UnchangedEnv

\* what the body stored for the case of the item, None when it stored nothing
CaseRow(r, name) == IF r.ev.stored THEN r.db.cases[name] ELSE None

\* collect_data.main: one iteration of "for i, issue_data in enumerate(issues)"
ProcessIssueFull ==
    /\ pc = "issues"
    /\ mode = "full"
    /\ idx <= Len(issues)
    /\ \E xs \in StatsOutcomes, nm \in NamelistOutcomes :
         \E r \in { process_issue_full(db, stats, issues[idx], fsys, wserver, xs, nm) } :
           \E st \in { IF r.ev.raised # None
                       THEN on_issue_exception(r.stats, issues[idx].number, r.ev.raised)
                       ELSE r.stats } :
              /\ db' = r.db
              /\ stats' = st
              /\ trace' = Append(trace,
                            [r.ev EXCEPT !.case_row = CaseRow(r, issues[idx].body.case_name),
                                         !.errors_added = Len(st.errors) - Len(stats.errors)])
    /\ idx' = idx + 1
    /\ UNCHANGED <<mode, issues, cases, update_log, pc>>
    /\ UnchangedEnv

\* update_incremental: one iteration of "for issue_data in issues"
ProcessIssueIncremental ==
    /\ pc = "issues"
    /\ mode = "incremental"
    /\ idx <= Len(issues)
    /\ \E nm \in NamelistOutcomes :
         \E r \in { process_issue_incremental(db, stats, issues[idx], fsys, nm) } :
           \E st \in { IF r.ev.raised # None
                       THEN on_issue_exception(r.stats, issues[idx].number, r.ev.raised)
                       ELSE r.stats } :
              /\ db' = r.db
              /\ stats' = st
              /\ trace' = Append(trace,
                            [r.ev EXCEPT !.case_row = CaseRow(r, issues[idx].body.case_name),
                                         !.errors_added = Len(st.errors) - Len(stats.errors)])
    /\ idx' = idx + 1
    /\ UNCHANGED <<mode, issues, cases, update_log, pc>>
    /\ UnchangedEnv

\* update_diagnostics: one iteration of "for case in cases"; no try encloses it,
\* so an exception that leaves the body ends the script
ProcessCaseDiagnostics ==
    /\ pc = "cases"
    /\ idx <= Len(cases)
    /\ \E xs \in StatsOutcomes :
         \E r \in { process_case_diagnostics(db, stats, cases[idx], fsys, wserver, xs) } :
              /\ db' = r.db
              /\ stats' = r.stats
              /\ trace' = Append(trace,
                            [r.ev EXCEPT !.case_row = CaseRow(r, cases[idx].case_name),
                                         !.errors_added = Len(r.stats.errors)
                                                          - Len(stats.errors)])
              /\ IF r.ev.raised # None
                 THEN pc' = "aborted" /\ idx' = idx
                 ELSE pc' = pc /\ idx' = idx + 1
    /\ UNCHANGED <<mode, issues, cases, update_log>>
    /\ UnchangedEnv

\* update_diagnostics: "all_cases = db.get_all_cases()" after the first loop
StartBackfill ==
    /\ pc = "cases"
    /\ idx > Len(cases)
    /\ cases' = get_all_cases(db, None)
    /\ idx' = 1
    /\ pc' = "backfill"
    /\ UNCHANGED <<mode, issues, db, update_log, stats, trace>>
    /\ UnchangedEnv

\* update_diagnostics: one iteration of "for case in all_cases"
BackfillCase ==
    /\ pc = "backfill"
    /\ idx <= Len(cases)
    /\ \E nm \in NamelistOutcomes :
         \E r \in { backfill_case(db, stats, cases[idx], fsys, nm) } :
              /\ db' = r.db
              /\ stats' = r.stats
    /\ idx' = idx + 1
    /\ UNCHANGED <<mode, issues, cases, update_log, pc, trace>>
    /\ UnchangedEnv

\* the call of complete_update_log after the last loop
CompleteRun ==
    /\ \/ pc = "issues" /\ idx > Len(issues)
       \/ pc = "backfill" /\ idx > Len(cases)
    /\ update_log' = CompleteCall(mode, update_log, stats)
    /\ pc' = "done"
    /\ UNCHANGED <<mode, issues, cases, db, stats, idx, trace>>
    /\ UnchangedEnv

Next ==
    \/ StartRun
    \/ ProcessIssueFull
    \/ ProcessIssueIncremental
    \/ ProcessCaseDiagnostics
    \/ StartBackfill
    \/ BackfillCase
    \/ CompleteRun

Spec == Init /\ [][Next]_vars

(***************************************************************************)
(* SpecStats: ADFParser applied once to a table or to a directory.         *)
(***************************************************************************)
InitStats ==
    /\ pfn = ""
    /\ pargs \in CsvInputs \cup DirInputs
    /\ pret = None
    /\ FindIdle
    /\ WebIdle
    /\ RunIdle
    /\ GitIdle

\* one call of extract_statistics_from_csv(csv_path, df)
ExtractStatisticsFromCsv ==
    /\ pfn = ""
    /\ pargs.kind = "csv"
    /\ pfn' = "extract_statistics_from_csv"
    /\ pret' = extract_statistics_from_csv(pargs.filename, pargs.df)
    /\ UNCHANGED pargs
    /\ UNCHANGED <<varsFind, varsWeb, varsRun, varsGit>>

\* one call of extract_statistics_list(diag_dir, diagnostic_id)
ExtractStatisticsList ==
    /\ pfn = ""
    /\ pargs.kind = "dir"
    /\ pfn' = "extract_statistics_list"
    /\ pret' = extract_statistics_list(pargs.files, pargs.diagnostic_id)
    /\ UNCHANGED pargs
    /\ UNCHANGED <<varsFind, varsWeb, varsRun, varsGit>>

\* one call of parse_all_tables_in_directory(diag_dir)
ParseAllTables ==
    /\ pfn = ""
    /\ pargs.kind = "dir"
    /\ pfn' = "parse_all_tables_in_directory"
    /\ pret' = parse_all_tables_in_directory(pargs.files)
    /\ UNCHANGED pargs
    /\ UNCHANGED <<varsFind, varsWeb, varsRun, varsGit>>

NextStats == ExtractStatisticsFromCsv \/ ExtractStatisticsList \/ ParseAllTables

SpecStats == InitStats /\ [][NextStats]_vars

(***************************************************************************)
(* SpecCase: CaseParser.parse_case_name applied once to a case name.       *)
(***************************************************************************)
InitCase ==
    /\ pfn = ""
    /\ pargs \in CaseNameInputs
    /\ pret = None
    /\ FindIdle
    /\ WebIdle
    /\ RunIdle
    /\ GitIdle

\* one call of parse_case_name(case_name)
ParseCaseName ==
    /\ pfn = ""
    /\ pargs.kind = "case_name"
    /\ pfn' = "parse_case_name"
    /\ pret' = parse_case_name(pargs.name)
    /\ UNCHANGED pargs
    /\ UNCHANGED <<varsFind, varsWeb, varsRun, varsGit>>

NextCase == ParseCaseName

SpecCase == InitCase /\ [][NextCase]_vars

(***************************************************************************)
(* SpecIssue: one issue parsed by two runs; each run is a process with its *)
(* own string hashes.                                                      *)
(***************************************************************************)
InitIssue ==
    /\ pfn = ""
    /\ pargs \in IssueTextInputs
    /\ pret = << >>
    /\ FindIdle
    /\ WebIdle
    /\ RunIdle
    /\ GitIdle

\* one call of parse_full_issue(issue_data)
ParseFullIssue ==
    /\ pargs.kind = "issue"
    /\ Len(pret) < 2
    /\ pfn' = "parse_full_issue"
    /\ \E order \in HashOrders : pret' = Append(pret, parse_full_issue_text(pargs, order))
    /\ UNCHANGED pargs
    /\ UNCHANGED <<varsFind, varsWeb, varsRun, varsGit>>

NextIssue == ParseFullIssue

SpecIssue == InitIssue /\ [][NextIssue]_vars

(***************************************************************************)
(* SpecGitHub: fetch_all_issues, one attempt of _make_request per step.    *)
(***************************************************************************)
InitGitHub ==
    /\ gpages \in SeqsUpTo(PageChoices, MaxPages)
    /\ grate = InitialRateLimit
    /\ gpc = "request"
    /\ gpage = 1
    /\ gattempt = 0
    /\ glog = << >>
    /\ gresp = None
    /\ gcalls = << [page |-> 1, result |-> "pending"] >>
    /\ gall = << >>
    /\ gret = None
    /\ FindIdle
    /\ WebIdle
    /\ RunIdle
    /\ ParseIdle

CallEnded(result) == [gcalls EXCEPT ![Len(gcalls)].result = result]

\* _make_request: one iteration of "for attempt in range(retry_count)"
MakeRequestAttempt ==
    /\ gpc = "request"
    /\ gattempt < retry_count
    /\ \E outcome \in Outcomes :
         LET r == make_request_attempt(grate, gattempt, outcome,
                                       page_response(gpages, gpage))
         IN  /\ grate' = r.rate_limit
             /\ glog' = glog \o r.log
             /\ IF r.done
                THEN /\ gresp' = r.response
                     /\ gpc' = "responded"
                     /\ gcalls' = CallEnded(IF r.response = None THEN "failed" ELSE "ok")
                     /\ UNCHANGED gattempt
                ELSE /\ gattempt' = gattempt + 1
                     /\ UNCHANGED <<gresp, gpc, gcalls>>
    /\ UNCHANGED <<gpages, gpage, gall, gret>>
    /\ UNCHANGED <<varsFind, varsWeb, varsRun, varsParse>>

\* _make_request: "return None" after the loop
MakeRequestExhausted ==
    /\ gpc = "request"
    /\ gattempt >= retry_count
    /\ gresp' = None
    /\ gpc' = "responded"
    /\ gcalls' = CallEnded("failed")
    /\ UNCHANGED <<gpages, grate, gpage, gattempt, glog, gall, gret>>
    /\ UNCHANGED <<varsFind, varsWeb, varsRun, varsParse>>

\* fetch_all_issues: the rest of one iteration of "while True", and the call of
\* _make_request for the next page or "return all_issues"
FetchPage ==
    /\ gpc = "responded"
    /\ LET r == fetch_page(gall, gresp)
       IN  /\ gall' = r.all_issues
           /\ IF r.more
              THEN /\ gpage' = gpage + 1
                   /\ gcalls' = Append(gcalls, [page |-> gpage + 1, result |-> "pending"])
                   /\ gpc' = "request"
                   /\ gattempt' = 0
                   /\ glog' = << >>
                   /\ gresp' = None
                   /\ UNCHANGED gret
              ELSE /\ gpc' = "returned"
                   /\ gret' = r.all_issues
                   /\ UNCHANGED <<gpage, gcalls, gattempt, glog, gresp>>
    /\ UNCHANGED <<gpages, grate>>
    /\ UNCHANGED <<varsFind, varsWeb, varsRun, varsParse>>

NextGitHub == MakeRequestAttempt \/ MakeRequestExhausted \/ FetchPage

SpecGitHub == InitGitHub /\ [][NextGitHub]_vars

(***************************************************************************)
(* Claims about find_diagnostics (SpecFind)                                *)
(***************************************************************************)
\* the configured ADF bases under which the case has a directory
AdfHits == { k \in 1..Len(ADF_OUTPUT_BASES) :
               join(ADF_OUTPUT_BASES[k], CaseName) \in fsys.dirs }

ClimoHit == exists(fsys, join(AMWG_CLIMO_BASE, CaseName))

\* the conventional subdirectory names present under the known case directory
SubdirHits ==
    IF fargs.case_dir # NoPath /\ exists(fsys, fargs.case_dir)
    THEN { k \in 1..Len(diag_subdirs) :
             exists(fsys, join(fargs.case_dir, diag_subdirs[k])) }
    ELSE {}

\* the positions of the issue path hints that exist and name diagnostics
HintHits == { k \in 1..Len(fargs.additional_paths) :
                /\ exists(fsys, fargs.additional_paths[k])
                /\ is_diagnostics_directory(fargs.additional_paths[k]) }

\* what the glob patterns of strategy 5 match, first pattern first
PatternHits ==
    LET byName == { p \in {Glob1, Glob2, join(AMWG_CLIMO_BASE, CaseName)} :
                      exists(fsys, p) }
    IN  IF byName # {} THEN byName
        ELSE IF exists(fsys, Glob3) THEN {Glob3} ELSE {}

\* C1: find_diagnostics returns the result of the lowest-numbered strategy whose
\* condition holds (ADF bases in configured order, climatology base, case
\* subdirectories in order, path hints in order, glob patterns), never the result
\* of a later strategy when an earlier one matches, and None when none matches.
C1_StrategyOrder ==
    fargs # None =>
        IF AdfHits # {}
        THEN fret # None
             /\ fret.path = join(ADF_OUTPUT_BASES[SetMin(AdfHits)], CaseName)
        ELSE IF ClimoHit
        THEN fret # None /\ fret.path = join(AMWG_CLIMO_BASE, CaseName)
        ELSE IF SubdirHits # {}
        THEN fret # None
             /\ fret.path = join(fargs.case_dir, diag_subdirs[SetMin(SubdirHits)])
        ELSE IF HintHits # {}
        THEN fret # None /\ fret.path = fargs.additional_paths[SetMin(HintHits)]
        ELSE IF PatternHits # {}
        THEN fret # None /\ fret.path \in PatternHits
        ELSE fret = None

\* C1 witness: the case is under an ADF base and under the climatology base, and
\* the call returned the ADF directory
C1_Witness ==
    /\ fargs # None
    /\ AdfHits # {}
    /\ ClimoHit
    /\ fret # None
    /\ fret.path = join(ADF_OUTPUT_BASES[SetMin(AdfHits)], CaseName)

\* the directories at or below a path
DirsBelow(p) == { d \in fsys.dirs : IsPrefix(p, d) }

\* C10: whenever find_diagnostics selects a directory, the record has exists = TRUE,
\* file_count = the number of .csv files at any depth below it, and last_modified
\* absent when that number is 0 (a directory without table files is still found).
C10_ScanRecord ==
    (fargs # None /\ fret # None) =>
        /\ fret.exists = TRUE
        /\ fret.file_count =
             Cardinality({ f \in fsys.files :
                             f.ext = "csv" /\ f.dir \in DirsBelow(fret.path) })
        /\ (fret.file_count = 0 => fret.last_modified = NoTime)

\* C10 witnesses: a selected directory that holds files but no table file, found
\* with file_count 0 and no last_modified
C10_Witness ==
    /\ fargs # None
    /\ fret # None
    /\ \E f \in fsys.files : f.dir = fret.path
    /\ fret.exists
    /\ fret.file_count = 0
    /\ fret.last_modified = NoTime

(***************************************************************************)
(* Claims about the remote resolver (SpecWeb)                              *)
(***************************************************************************)
WebEnded == wpc \in {"returned", "raised"}

LinksOf(page) == { wserver.links[page][k].url : k \in 1..Len(wserver.links[page]) }

UsableCandidates == { k \in 1..Len(wtried) : wtried[k].tables # << >> }

\* C7: the candidates are tried in the order given, the result is built from the
\* first one that gave a usable table and from it alone, no later candidate is
\* tried, and the result is None exactly when no candidate gave a usable table.
C7_FirstUsableWins ==
    WebEnded =>
        /\ \A k \in 1..Len(wtried) : wtried[k].url = wcands[k]
        /\ IF UsableCandidates = {}
           THEN wret = None /\ Len(wtried) = Len(wcands)
           ELSE LET k == SetMin(UsableCandidates)
                IN  /\ Len(wtried) = k
                    /\ ~IsRaised(wret)
                    /\ wret # None
                    /\ wret.source_url = wcands[k]
                    /\ wret.tables_data = wtried[k].tables

\* C8: when a candidate gave a usable table, the call returns a result whose
\* location record is tagged source = web, has exists = TRUE and file_count = the
\* number of table pages found for that URL, together with the fetched tables.
C8_WebRecord ==
    (WebEnded /\ UsableCandidates # {}) =>
        LET k == SetMin(UsableCandidates)
        IN  /\ ~IsRaised(wret)
            /\ wret # None
            /\ wret.diagnostics_info.source = "web"
            /\ wret.diagnostics_info.exists = TRUE
            /\ wret.diagnostics_info.file_count = Len(wtried[k].html_urls)
            /\ wret.tables_data = wtried[k].tables

(***************************************************************************)
(* Claims about the three run modes (Spec)                                 *)
(***************************************************************************)
RunEnded == pc \in {"done", "aborted"}

\* C3: in a full collection and in an incremental update the issues are processed
\* in the order fetched, an exception raised by one issue leaves an entry
\* "Issue #<number>: <message>" in the run's error list, the run never aborts, and
\* when it is done every fetched issue has been processed.
C3_IssueErrorsCaught ==
    mode \in {"full", "incremental"} =>
        /\ pc # "aborted"
        /\ Len(trace) <= Len(issues)
        /\ \A k \in 1..Len(trace) :
             /\ trace[k].item = issues[k].number
             /\ (trace[k].raised # None =>
                   \E j \in 1..Len(stats.errors) :
                      stats.errors[j] = "Issue #" \o ToString(trace[k].item) \o ": "
                                        \o trace[k].raised.msg)
        /\ (pc = "done" => Len(trace) = Len(issues))

\* C3 witness: a full collection is done whose first issue raised and whose second
\* issue was processed and stored its case
C3_Witness ==
    /\ mode = "full"
    /\ pc = "done"
    /\ Len(trace) = 2
    /\ trace[1].raised # None
    /\ trace[2].raised = None
    /\ trace[2].stored

\* C4: a run that has ended has completed its update_log entry: the status of the
\* entry is 'completed' or 'completed_with_errors', never still 'running'.
C4_LogCompleted ==
    RunEnded => update_log.status \in {"completed", "completed_with_errors"}

\* C5: when the run has completed its update_log entry, the status is
\* 'completed_with_errors' exactly when the error list is non-empty and
\* 'completed' exactly when it is empty.
C5_StatusMatchesErrors ==
    pc = "done" =>
        /\ (update_log.status = "completed_with_errors") <=> (stats.errors # << >>)
        /\ (update_log.status = "completed") <=> (stats.errors = << >>)

\* C6: in a full collection find_diagnostics_from_urls is called for an issue only
\* after find_diagnostics returned None for it, it is called whenever
\* find_diagnostics returned None and the issue has a diagnostic URL, and no fetch
\* is made for an issue whose local lookup succeeded.
C6_RemoteOnlyAfterLocalAbsent ==
    mode = "full" =>
        \A k \in 1..Len(trace) :
           /\ (trace[k].remote_called => trace[k].local_called /\ trace[k].local = None)
           /\ (/\ trace[k].local_called
               /\ trace[k].local = None
               /\ issues[k].body.diagnostic_urls # << >>) => trace[k].remote_called
           /\ (trace[k].local_called /\ trace[k].local # None =>
                 ~trace[k].remote_called /\ trace[k].fetches = << >>)
           /\ (~trace[k].remote_called => trace[k].fetches = << >>)

\* C6 witness: one issue with a diagnostic URL was resolved locally, and for another
\* the remote resolver was called and fetched
C6_Witness ==
    /\ mode = "full"
    /\ \E j, k \in 1..Len(trace) :
         /\ trace[j].local_called
         /\ trace[j].local # None
         /\ issues[j].body.diagnostic_urls # << >>
         /\ trace[k].local = None
         /\ trace[k].remote_called
         /\ trace[k].fetches # << >>

\* every candidate URL of the item fails to be fetched
AllUrlsDown(e) == \A j \in 1..Len(e.urls) : e.urls[j] \in wserver.down

\* C9: in a full collection, when no local strategy matched and every candidate
\* URL fails to be fetched, the case is stored without diagnostics
\* (has_diagnostics = FALSE, no directory, no URL) and the issue adds nothing to
\* the error list.
C9_AllFailingIsAbsent ==
    mode = "full" =>
        \A k \in 1..Len(trace) :
           (trace[k].local_called /\ trace[k].local = None /\ AllUrlsDown(trace[k])) =>
              /\ trace[k].raised = None
              /\ trace[k].case_row # None
              /\ trace[k].case_row.has_diagnostics = FALSE
              /\ trace[k].case_row.diagnostics_directory = NoPath
              /\ trace[k].case_row.diagnostics_url = None
              /\ trace[k].errors_added = 0

\* C9 witness: the remote resolver was called with a URL, the fetch was attempted
\* and failed, and the case was stored
C9_Witness ==
    /\ mode = "full"
    /\ \E k \in 1..Len(trace) :
         /\ trace[k].local_called
         /\ trace[k].local = None
         /\ trace[k].urls # << >>
         /\ AllUrlsDown(trace[k])
         /\ trace[k].remote_called
         /\ trace[k].fetches # << >>
         /\ trace[k].case_row # None

(***************************************************************************)
(* Claims about ADFParser (SpecStats)                                      *)
(***************************************************************************)
CsvCalled == pfn = "extract_statistics_from_csv"

\* the rows of the table that carry a variable name, and that name
NamedRows(df) == { i \in 1..Len(df.rows) : notna(df.rows[i][df.columns[1]]) }
NameOfRow(df, i) == strip(str(df.rows[i][df.columns[1]]))

\* the (column, metric) pairs the two table kinds are documented with
DocumentedPairs(is_comp) ==
    IF is_comp THEN { <<"test", "global_mean">>, <<"diff", "bias">> }
    ELSE { <<"mean", "global_mean">>, <<"standard dev.", "std">>,
           <<"standard error", "std_error">>, <<"sample size", "sample_size">> }

\* the <<metric, value>> pairs a row is documented to give
ExpectedOfRow(df, i, is_comp) ==
    { <<p[2], df.rows[i][p[1]].v>> :
        p \in { q \in DocumentedPairs(is_comp) :
                  /\ q[1] \in DOMAIN df.rows[i]
                  /\ df.rows[i][q[1]].kind = "num" } }

\* the <<metric, value>> pairs the result holds for a variable
MetricsOf(result, var_name) ==
    IF DictHas(result, var_name)
    THEN { x \in { DictGet(result, var_name)[j] : j \in 1..Len(DictGet(result, var_name)) } :
             x[1] # "_unit" }
    ELSE {}

RowHasUnit(df, i) == "unit" \in DOMAIN df.rows[i] /\ notna(df.rows[i]["unit"])

\* the rows of a variable that give a metric or a unit
GivingRows(df, var_name, is_comp) ==
    { i \in NamedRows(df) :
        /\ NameOfRow(df, i) = var_name
        /\ (ExpectedOfRow(df, i, is_comp) # {} \/ RowHasUnit(df, i)) }

\* C11 as stated: for EVERY row with a variable name the result of
\* extract_statistics_from_csv holds exactly the mapped metrics whose cell
\* is present and numeric.
C11_EveryRowEmitted ==
    CsvCalled =>
        \A i \in NamedRows(pargs.df) :
            MetricsOf(pret, NameOfRow(pargs.df, i))
              = ExpectedOfRow(pargs.df, i, is_comparison_table(pargs.filename, pargs.df))

\* C11 amended: the result holds, for each variable, exactly the mapped
\* metrics whose cell is present and numeric in the LAST row of that variable
\* that gives a metric or a unit (a later row of the same variable replaces
\* an earlier one); it holds no other variable, and a comparison table
\* gives no metric other than global_mean and bias.
C11_LastRowEmitted ==
    CsvCalled =>
        LET df == pargs.df
            is_comp == is_comparison_table(pargs.filename, df)
            names == { NameOfRow(df, i) : i \in NamedRows(df) }
        IN  /\ DictKeys(pret) \subseteq names
            /\ \A v \in names :
                  /\ MetricsOf(pret, v)
                       = IF GivingRows(df, v, is_comp) = {} THEN {}
                         ELSE ExpectedOfRow(df, SetMax(GivingRows(df, v, is_comp)), is_comp)
                  /\ is_comp =>
                        { x[1] : x \in MetricsOf(pret, v) } \subseteq {"global_mean", "bias"}

\* two rows of one variable: the first gives metrics the second does not
C11_Witness ==
    /\ CsvCalled
    /\ pargs.filename = SingleCsvName
    /\ pargs.df.columns = SingleColumns
    /\ Len(pargs.df.rows) = 2
    /\ NamedRows(pargs.df) = {1, 2}
    /\ NameOfRow(pargs.df, 1) = NameOfRow(pargs.df, 2)
    /\ pargs.df.rows[1]["mean"] = Num(288)
    /\ pargs.df.rows[2]["mean"] = Text("abc")
    /\ MetricsOf(pret, NameOfRow(pargs.df, 1)) = { <<"sample_size", 30>>, <<"std", 1>>, <<"std_error", 2>> }

ListCalled == pfn = "extract_statistics_list"

\* the units a stored record carries when the unit is the text s
UnitOf(s) == [str |-> s]

\* the rows of the directory's tables a record was extracted from
SourceRows(csv_files, rec) ==
    { <<k, i>> \in (1..Len(csv_files)) \X (1..MaxRows) :
        /\ csv_files[k].df # None
        /\ i \in NamedRows(csv_files[k].df)
        /\ NameOfRow(csv_files[k].df, i) = rec.variable_name
        /\ infer_temporal_period(csv_files[k].path) = rec.temporal_period }

\* C12: every statistic record produced for storage from a row whose unit
\* cell is present and non-empty carries that unit.
C12_UnitCarried ==
    ListCalled =>
        \A j \in 1..Len(pret) :
            \A x \in SourceRows(pargs.files, pret[j]) :
                RowHasUnit(pargs.files[x[1]].df, x[2]) =>
                    pret[j].units = UnitOf(str(pargs.files[x[1]].df.rows[x[2]]["unit"]))

(***************************************************************************)
(* Claims about CaseParser (SpecCase)                                      *)
(***************************************************************************)
CaseParsed == pfn = "parse_case_name"

\* C13: b.e30_alpha08b.B1850C_LTso.ne30_t232_wgx3.308 parses to experiment_id
\* b.e30_alpha08b, compset B1850C_LTso, resolution ne30_t232_wgx3 and
\* case_number 308.
C13_DocumentedName ==
    (CaseParsed /\ pargs.name = DocumentedCaseName) =>
        /\ pret.experiment_id = Some(SubSeq(DocumentedCaseName, 1, 14))
        /\ pret.compset = Some(SubSeq(DocumentedCaseName, 16, 26))
        /\ pret.resolution = Some(SubSeq(DocumentedCaseName, 28, 41))
        /\ pret.case_number = Some(SubSeq(DocumentedCaseName, 43, 45))

\* the splits of a name into experiment_id.compset.resolution.case_number
\* under the documented grammar, with a compset of at least minLen characters
GrammarSplits(s, minLen) ==
    { t \in { x \in (1..Len(s)) \X (1..Len(s)) \X (1..Len(s)) :
                 s[x[1]] = "." /\ s[x[2]] = "." /\ s[x[3]] = "." } :
        /\ 1 < t[1] /\ t[1] + minLen < t[2] /\ t[2] + 1 < t[3] /\ t[3] < Len(s)
        /\ \A k \in 1..t[1] - 1 : s[k] \in Lower \cup Upper \cup Digit \cup {".", "_", "-"}
        /\ s[t[1] + 1] \in Upper
        /\ \A k \in t[1] + 1..t[2] - 1 : s[k] \in Upper \cup Digit \cup {"_"}
        /\ \A k \in t[2] + 1..t[3] - 1 : s[k] \in Lower \cup Digit \cup {"_"}
        /\ \A k \in t[3] + 1..Len(s) : s[k] \in Digit }

FieldsOfSplit(s, t) ==
    [ experiment_id |-> Some(SubSeq(s, 1, t[1] - 1)),
      compset |-> Some(SubSeq(s, t[1] + 1, t[2] - 1)),
      resolution |-> Some(SubSeq(s, t[2] + 1, t[3] - 1)),
      case_number |-> Some(SubSeq(s, t[3] + 1, Len(s))) ]

ReturnsSplit(s, t) ==
    /\ pret.experiment_id = FieldsOfSplit(s, t).experiment_id
    /\ pret.compset = FieldsOfSplit(s, t).compset
    /\ pret.resolution = FieldsOfSplit(s, t).resolution
    /\ pret.case_number = FieldsOfSplit(s, t).case_number

\* C14 as stated: every name matching the documented grammar (compset: an
\* uppercase letter, then only uppercase letters, digits, underscores) has
\* one split only, and parse_case_name returns its four substrings.
C14_GrammarRoundTrip ==
    CaseParsed =>
        /\ Cardinality(GrammarSplits(pargs.name, 1)) <= 1
        /\ \A t \in GrammarSplits(pargs.name, 1) : ReturnsSplit(pargs.name, t)

\* C14 amended: the same for every name whose compset has at least two
\* characters (an uppercase letter followed by one or more uppercase
\* letters, digits or underscores).
C14_TwoCharCompset ==
    CaseParsed =>
        /\ Cardinality(GrammarSplits(pargs.name, 2)) <= 1
        /\ \A t \in GrammarSplits(pargs.name, 2) : ReturnsSplit(pargs.name, t)

\* a name with a dotted experiment_id is split and returned
C14_Witness ==
    /\ CaseParsed
    /\ pargs.parts = << <<"e", "3", "_", "a">>, <<"B", "1">>, <<"e", "3", "_", "a">>, <<"0", "1">> >>
    /\ pargs.name = <<"b", ".">> \o JoinDots(pargs.parts)
    /\ pret.experiment_id = Some(<<"b", ".", "e", "3", "_", "a">>)
    /\ pret.compset = Some(<<"B", "1">>)
    /\ pret.case_number = Some(<<"0", "1">>)

(***************************************************************************)
(* Claims about IssueParser (SpecIssue)                                    *)
(***************************************************************************)
IssueParsedTwice == pfn = "parse_full_issue" /\ Len(pret) = 2

\* C15: parsing the same issue twice gives identical outputs, including the
\* order of diagnostics_paths, contacts and diagnostic_urls and the chosen
\* case_directory; no output depends on the iteration order of a set.
C15_ParseTwiceSame ==
    IssueParsedTwice => pret[1] = pret[2]

\* C17: the case_name taken from a title is absent or non-empty after
\* trimming; a title of whitespace only gives no present-but-empty name.
C17_CaseNameNotEmpty ==
    pfn = "parse_full_issue" =>
        \A i \in 1..Len(pret) :
            pret[i].case_name = None \/ str_strip(pret[i].case_name.str) # << >>

(***************************************************************************)
(* Claims about the stored rows (Spec)                                     *)
(***************************************************************************)
\* C16: the statistics table is append-only: no step updates or deletes a
\* row, the row count never decreases, and a pass that extracts statistics
\* adds one row per extracted record, also when the same (variable,
\* period, metric) is stored already.
C16_StatisticsAppendOnly ==
    [][ /\ Len(db'.statistics) >= Len(db.statistics)
        /\ SubSeq(db'.statistics, 1, Len(db.statistics)) = db.statistics
        /\ ("statistics_extracted" \in DOMAIN stats /\ pc \in {"issues", "cases"}) =>
              Len(db'.statistics) - Len(db.statistics)
                = stats'.statistics_extracted - stats.statistics_extracted ]_vars

\* two stored rows with the same variable, period and metric
C16_Witness ==
    \E i, j \in 1..Len(db.statistics) :
        /\ i < j
        /\ db.statistics[i].variable_name = db.statistics[j].variable_name
        /\ db.statistics[i].temporal_period = db.statistics[j].temporal_period
        /\ db.statistics[i].metric_name = db.statistics[j].metric_name

\* C18: the id upsert_diagnostic returns is the id of the diagnostics row
\* keyed by (case_id, path), on insert and on conflict-update alike.
C18_ReturnedIdIsRow ==
    \A i \in 1..Len(trace) :
        trace[i].diag # None =>
            /\ trace[i].diag.id \in 1..Len(db.diagnostics)
            /\ db.diagnostics[trace[i].diag.id].case_id = trace[i].diag.case_id
            /\ db.diagnostics[trace[i].diag.id].path = trace[i].diag.path

\* C19: a rescan step leaves issue_id and case_directory of every case row
\* as they were (of the columns the claim lists, the two the rows carry).
C19_RescanKeepsCaseColumns ==
    [][ (mode = "diagnostics" /\ pc = "cases") =>
            \A c \in DOMAIN db.cases :
                /\ c \in DOMAIN db'.cases
                /\ db'.cases[c].issue_id = db.cases[c].issue_id
                /\ db'.cases[c].case_directory = db.cases[c].case_directory ]_vars

\* C20: an incremental step leaves case_directory, diagnostics_directory,
\* has_diagnostics and diagnostics_url of every existing case row unchanged.
C20_IncrementalKeepsDiagnostics ==
    [][ (mode = "incremental" /\ pc = "issues") =>
            \A c \in DOMAIN db.cases :
                /\ c \in DOMAIN db'.cases
                /\ db'.cases[c].case_directory = db.cases[c].case_directory
                /\ db'.cases[c].diagnostics_directory = db.cases[c].diagnostics_directory
                /\ db'.cases[c].has_diagnostics = db.cases[c].has_diagnostics
                /\ db'.cases[c].diagnostics_url = db.cases[c].diagnostics_url ]_vars


(***************************************************************************)
(* Claims about the traversal of directory listings (SpecWeb)              *)
(***************************************************************************)
\* the pages one traversal fetched, in the order fetched
PageFetches(t) == SelectSeq(t.fetches, LAMBDA f : f.what = "page")

\* found and dirs_to_follow of a page, as the loop over its links leaves them
LinksClassified(u) ==
    ClassifyLinks(u, fetch_page_links(wserver, u), CaseName, << >>, << >>)

\* 1 + n + n^2 + ... + n^d
RECURSIVE GeometricSum(_, _)
GeometricSum(n, d) == IF d = 0 THEN 1 ELSE 1 + n * GeometricSum(n, d - 1)

\* the number of links on the pages of the server, all pages together
LinkCount ==
    LET pages == DOMAIN wserver.links
        RECURSIVE Sum(_)
        Sum(S) == IF S = {} THEN 0
                  ELSE LET u == CHOOSE x \in S : TRUE
                       IN  Len(wserver.links[u]) + Sum(S \ {u})
    IN  Sum(pages)

\* C21: a traversal ends on every link graph, with cycles and self-links: it
\* starts at depth 0, fetches no page at a depth above MAX_NAV_DEPTH, and fetches
\* at most 1 + n + ... + n^MAX_NAV_DEPTH pages for a server with n links.
C21_DepthBounded ==
    \A i \in 1..Len(wtried) :
        LET p == PageFetches(wtried[i])
        IN  /\ \A k \in 1..Len(p) : p[k].depth \in 0..MAX_NAV_DEPTH
            /\ p # << >> => p[1].depth = 0 /\ p[1].url = wtried[i].url
            /\ \A k \in 2..Len(p) : p[k].depth <= p[k-1].depth + 1
            /\ Len(p) <= GeometricSum(LinkCount, MAX_NAV_DEPTH)

\* C21 witness: a page that links to itself was fetched at every depth up to
\* MAX_NAV_DEPTH and the call ended
C21_Witness ==
    /\ WebEnded
    /\ Dir0 \in LinksOf(Dir0)
    /\ \E i \in 1..Len(wtried) :
          LET p == PageFetches(wtried[i])
          IN  \A d \in 0..MAX_NAV_DEPTH :
                  \E k \in 1..Len(p) : p[k].depth = d /\ p[k].url = Dir0

\* the fetches made for the directory links of the page fetched at position k
ChildFetches(p, k) ==
    { j \in (k+1)..Len(p) :
        /\ p[j].depth = p[k].depth + 1
        /\ \A m \in (k+1)..j : p[m].depth > p[k].depth }

\* C22: after a page that links to a table page nothing more is fetched by the
\* traversal; the directory links of any other page are fetched in page order,
\* all of them unless the depth bound is reached or the traversal found tables;
\* and the tables returned are the table links of the last page fetched.
\* (Stated of the traversal made last: every traversal is the last one in the
\* state that follows it.)
C22_FirstBranchWins ==
    \A i \in {Len(wtried)} \ {0} :
        LET p == PageFetches(wtried[i])
        IN  /\ \A k \in 1..Len(p) :
                 LET c == LinksClassified(p[k].url)
                     ch == ChildFetches(p, k)
                 IN  /\ c.found # << >> => k = Len(p)
                     /\ Cardinality(ch) <= Len(c.dirs)
                     /\ \A j \in ch :
                          p[j].url = c.dirs[Cardinality({m \in ch : m <= j})]
                     /\ (/\ Cardinality(ch) < Len(c.dirs)
                         /\ p[k].depth < MAX_NAV_DEPTH)
                           => wtried[i].html_urls # << >>
            /\ (p # << >> /\ wtried[i].html_urls # << >>) =>
                  wtried[i].html_urls = LinksClassified(p[Len(p)].url).found
            /\ (p # << >> /\ wtried[i].html_urls = << >>) =>
                  \A k \in 1..Len(p) : LinksClassified(p[k].url).found = << >>

\* C22 witness: a page without table links has two directory links, the first
\* branch gave a table and the second was not fetched
C22_Witness ==
    /\ WebEnded
    /\ \E i \in 1..Len(wtried) :
          LET p == PageFetches(wtried[i])
          IN  /\ Len(p) = 2
              /\ LinksClassified(p[1].url).found = << >>
              /\ Len(LinksClassified(p[1].url).dirs) = 2
              /\ LinksClassified(p[2].url).found # << >>
              /\ wtried[i].html_urls # << >>


(***************************************************************************)
(* Claims about the classification and merging of tables (SpecStats)       *)
(***************************************************************************)
\* the file names amwg_table_{casename}.csv of the model
SingleCaseFileNames == {SingleCsvName, CompCaseCsvName}

\* the documented classification: the comparison file, or exactly the
\* comparison columns
DocumentedComparison(filename, df) ==
    \/ filename = CompCsvName
    \/ ColumnSet(df.columns) = {"variable", "unit", "test", "control", "diff"}

\* what processing a table as a comparison table (is_comp) or as a single-case
\* table gives
ProcessedAs(df, is_comp) ==
    IF df.rows = << >> THEN << >>
    ELSE StatsOfRows(df.rows, df.columns[1], is_comp, << >>)

\* C23: a table is processed as a comparison table exactly when its file is the
\* comparison file or its columns are exactly variable, unit, test, control,
\* diff; every other table, and so every amwg_table_{casename}.csv with the
\* single-case columns, is processed as a single-case table.
C23_Classification ==
    CsvCalled =>
        /\ pret = ProcessedAs(pargs.df, DocumentedComparison(pargs.filename, pargs.df))
        /\ (/\ pargs.filename \in SingleCaseFileNames
            /\ pargs.df.columns = SingleColumns)
              => pret = ProcessedAs(pargs.df, FALSE)


DirParsed == pfn = "parse_all_tables_in_directory"

\* the periods, variables and metric names of the model's tables
ModelPeriods == {"ANN", "DJF", "yrs_2_21", "yrs_22_41"}
ModelVariables == {"TS", "PS"}
ModelMetrics == {"global_mean", "std", "std_error", "sample_size", "bias"}

\* what extract_statistics_from_csv gives for a file of the directory
FileStats(f) ==
    IF f.df = None THEN << >>
    ELSE extract_statistics_from_csv(f.path[Len(f.path)], f.df)

\* the file defines the metric for (period, variable)
FileDefines(f, period, v, m) ==
    /\ infer_temporal_period(f.path) = period
    /\ DictHas(FileStats(f), v)
    /\ DictHas(DictGet(FileStats(f), v), m)

\* the aggregate holds a value for (period, variable, metric)
HasMetric(all_stats, period, v, m) ==
    /\ DictHas(all_stats, period)
    /\ DictHas(DictGet(all_stats, period), v)
    /\ DictHas(DictGet(DictGet(all_stats, period), v), m)

\* C24: for each (period, variable, metric) the aggregate of
\* parse_all_tables_in_directory holds the value of the last processed file
\* that defines the metric, also when later files of the same (period,
\* variable) define other metrics only; it holds no value no file defines.
C24_LastFileWins ==
    DirParsed =>
        \A period \in ModelPeriods, v \in ModelVariables, m \in ModelMetrics :
            LET ks == { k \in 1..Len(pargs.files) :
                          FileDefines(pargs.files[k], period, v, m) }
            IN  IF ks = {} THEN ~HasMetric(pret, period, v, m)
                ELSE /\ HasMetric(pret, period, v, m)
                     /\ DictGet(DictGet(DictGet(pret, period), v), m)
                          = DictGet(DictGet(FileStats(pargs.files[SetMax(ks)]), v), m)

\* C24 witness: two files of one period give the same variable; the later one
\* replaces global_mean, adds bias, and std of the earlier one is kept
C24_Witness ==
    /\ DirParsed
    /\ pargs.files = <<FileYears, FileComp>>
    /\ HasMetric(pret, "yrs_2_21", "TS", "std")
    /\ HasMetric(pret, "yrs_2_21", "TS", "bias")
    /\ DictGet(DictGet(DictGet(pret, "yrs_2_21"), "TS"), "global_mean") = 289


(***************************************************************************)
(* Claims about the case directory and the title (SpecIssue)               *)
(***************************************************************************)
IssueParsed == pfn = "parse_full_issue" /\ Len(pret) >= 1

\* the cleaned paths of the Case Directory section and of the whole body
SectionPaths(body) ==
    { clean_path(findall_section(body)[i]) : i \in 1..Len(findall_section(body)) }
BodyPaths(body) ==
    { clean_path(findall(body, "path")[i]) : i \in 1..Len(findall(body, "path")) }

\* the run-directory test: the path holds a run-root keyword
LooksLikeRunDirectory(path) == RunsOrCesm(path)

\* the documented choices: a section path that passes the test, else a body
\* path that passes it, else absent
DocumentedCaseDirectories(body) ==
    LET sec == { x \in SectionPaths(body) : LooksLikeRunDirectory(x) }
        any == { x \in BodyPaths(body) : LooksLikeRunDirectory(x) }
    IN  IF sec # {} THEN { Some(x) : x \in sec }
        ELSE IF any # {} THEN { Some(x) : x \in any }
        ELSE {None}

\* C25: the case directory is a Case Directory section path that passes the
\* run-directory test, else a body path that passes the same test, else
\* absent; a section path that fails the test is never returned.
C25_CaseDirectoryPreference ==
    IssueParsed =>
        \A i \in 1..Len(pret) :
            /\ pret[i].case_directory \in DocumentedCaseDirectories(pargs.body)
            /\ pret[i].case_directory # None =>
                  LooksLikeRunDirectory(pret[i].case_directory.str)


\* the titles for which parse_case_name resolves neither compset nor resolution
Unrecognised(title) ==
    /\ title # << >>
    /\ parse_case_name(title).compset = None
    /\ parse_case_name(title).resolution = None

\* the warnings about the case name that parse_full_issue can record
CaseNameWarnings == {"Could not extract case name from title"}

\* C26: for a non-empty title that resolves neither compset nor resolution,
\* parse_full_issue returns the trimmed title as case_name and a warnings list
\* that holds a note about the unrecognised case name.
C26_UnrecognisedTitleWarned ==
    (IssueParsed /\ Unrecognised(pargs.title)) =>
        \A i \in 1..Len(pret) :
            /\ pret[i].case_name = Some(str_strip(pargs.title))
            /\ \E k \in 1..Len(pret[i].parsing_warnings) :
                  pret[i].parsing_warnings[k] \in CaseNameWarnings


(***************************************************************************)
(* Claims about the steps after the statistics insert and the counters     *)
(* (Spec)                                                                  *)
(***************************************************************************)
\* the entry a failed statistics extraction leaves for an issue
StatisticsFailed(item) ==
    \E e \in EnvExceptions, j \in 1..Len(stats.errors) :
        stats.errors[j] = IssuePrefix(item) \o "Statistics extraction failed - " \o e.msg

\* the issue's diagnostics were found on the filesystem with a table file and
\* stored
FoundLocally(ev) ==
    /\ ev.local # None
    /\ ev.local.exists
    /\ ev.local.file_count > 0
    /\ ev.diag # None

\* C27: in a full collection an issue whose diagnostics are found on the
\* filesystem with at least one table file and whose statistics extraction
\* raises nothing adds no entry to the error list: the year-range steps that
\* follow the insert do not raise.
C27_YearRangeStepsComplete ==
    mode = "full" =>
        \A k \in 1..Len(trace) :
            (FoundLocally(trace[k]) /\ ~StatisticsFailed(trace[k].item)) =>
                /\ trace[k].raised = None
                /\ trace[k].errors_added = 0


(***************************************************************************)
(* Claims about GitHubCollector (SpecGitHub)                               *)
(***************************************************************************)
\* the positions of the requests in the log of the last _make_request
Requests == { i \in 1..Len(glog) : glog[i].kind = "get" }
Failures == {"http_error", "connection_error"}
MakeRequestReturned == gpc \in {"responded", "returned"}

IssuesOfPage(page) ==
    SelectSeq(page_response(gpages, page).json, LAMBDA x : ~x.pull_request)

RECURSIVE IssuesOfPages(_)
IssuesOfPages(n) == IF n = 0 THEN << >> ELSE IssuesOfPages(n - 1) \o IssuesOfPage(n)

\* C29: fetch_all_issues asks for the pages 1, 2, 3, ... in order, goes on only
\* after a page that was fetched, is not empty and carries rel="next", and
\* returns the issues of the pages fetched that are not pull requests; when
\* page k fails it returns those of the pages 1..k-1, as a plain list.
C29_PartialListOnFailure ==
    /\ \A i \in 1..Len(gcalls) :
         /\ gcalls[i].page = i
         /\ i < Len(gcalls) =>
               /\ gcalls[i].result = "ok"
               /\ page_response(gpages, i).json # << >>
               /\ page_response(gpages, i).next
    /\ gpc = "returned" =>
         LET k == Len(gcalls)
         IN  /\ \/ gcalls[k].result = "failed"
                \/ page_response(gpages, k).json = << >>
                \/ ~page_response(gpages, k).next
             /\ gret = IF gcalls[k].result = "failed" THEN IssuesOfPages(k - 1)
                       ELSE IssuesOfPages(k)
             /\ \A i \in 1..Len(gret) : ~gret[i].pull_request

\* C29 witness: page 1 held a pull request and an issue, page 2 failed after
\* its retries, and the issue of page 1 was returned
C29_Witness ==
    /\ gpc = "returned"
    /\ Len(gcalls) = 2
    /\ gcalls[2].result = "failed"
    /\ gpages[1].kinds = <<"pr", "issue">>
    /\ gret = << [number |-> 12, pull_request |-> FALSE] >>


\* the counters of a full collection are ordered
CountersOrdered ==
    /\ stats.diagnostics_found <= stats.cases_created
    /\ stats.cases_created <= stats.issues_processed
    /\ stats.issues_processed <= Len(issues)

\* a step never decreases a counter, and counts an issue as processed only
\* when the step has upserted that issue
CountersStep ==
    /\ stats'.diagnostics_found >= stats.diagnostics_found
    /\ stats'.cases_created >= stats.cases_created
    /\ stats'.issues_processed >= stats.issues_processed
    /\ stats'.statistics_extracted >= stats.statistics_extracted
    /\ stats'.issues_processed > stats.issues_processed =>
          /\ pc = "issues"
          /\ idx <= Len(issues)
          /\ stats'.issues_processed = stats.issues_processed + 1
          /\ issues[idx].number \in DOMAIN db'.issues
          /\ db'.issues[issues[idx].number].body = issues[idx].body

\* C30: in every state of a full collection diagnostics_found <=
\* cases_created <= issues_processed <= the number of fetched issues, no step
\* decreases a counter, and issues_processed grows by one only in a step that
\* has upserted the issue into the store.
C30_CountersOrdered ==
    /\ [](mode = "full" => CountersOrdered)
    /\ [][mode = "full" => CountersStep]_vars

\* C30 witness: a full collection is done that processed more issues than it
\* created cases, and created more cases than it found diagnostics
C30_Witness ==
    /\ mode = "full"
    /\ pc = "done"
    /\ stats.diagnostics_found < stats.cases_created
    /\ stats.cases_created < stats.issues_processed

====
